---------------------------- MODULE Spec2Model ----------------------------
(***************************************************************************)
(* RapidCLI configuration engine: the type registry (config_registrar.py), *)
(* the tree instantiator and the template-value renderer (app_loader.py),  *)
(* with the naming helpers of utils.py.                                    *)
(*                                                                         *)
(* Values follow YAML's data model.  Every value is a record whose field t *)
(* is its Python type: "str", "num", "bool", "null", "dict", "list", and   *)
(* "config" for an instance of Config or of one of its subclasses (field   *)
(* cls the class, field v the instance __dict__ in insertion order).       *)
(* Attribute names and registry names are sequences of characters, so the  *)
(* suffix tests of is_plural and make_singular are computed, not assumed.  *)
(* A raised exception is the value [t |-> "raise"].                        *)
(*                                                                         *)
(* Domain of the inputs: keys of a loaded mapping are non-empty            *)
(* identifiers that are not names of Config's own methods; string values   *)
(* hold no character that JSON escapes.  Names given to the calls on a     *)
(* node are any strings, the empty one and names of methods included.      *)
(***************************************************************************)
EXTENDS Integers, Sequences, FiniteSets, TLC

VARIABLES
    config_registry,  \* config_registrar.config_registry: name -> class
    pc,               \* "load" while modules register, then "built" (or "raised"),
                      \* "selected", "rendered"
    cli_data,         \* the compiled source document of the last build
    cli_config,       \* what create_cli_config_from_cli_from_data returned (or raised);
                      \* in the object graph, the reference to it
    config_obj,       \* Extension.config, the node handed to render_config_args
    rendered_config,  \* what render_config_args returned: Extension.config afterwards
    heap,             \* the objects a caller holds: object id -> node or document
    call,             \* the last call made: its operation and arguments
    result,           \* what that call returned or raised
    steps,            \* how many calls have been made on an object so far
    hooks,            \* the lifecycle hooks run_extension has called in this run
    data_cache,       \* SearchResolver.data_cache: source_file -> loaded data
    loads             \* source_file -> for each invocation of a data loader on it, in
                      \* order, whether it returned data

loadVars == <<config_registry, pc, cli_data, cli_config, config_obj, rendered_config>>

callVars == <<heap, call, result, steps>>

runVars == <<hooks, data_cache, loads>>

vars == <<config_registry, pc, cli_data, cli_config, config_obj, rendered_config,
          heap, call, result, steps, hooks, data_cache, loads>>

---------------------------------------------------------------------------
(* Bounds of the enumerated inputs.                                        *)

MaxListLen == 2

MaxApps == 2

MaxSteps == 2

MaxKeys == 2

MaxNameLen == 4

---------------------------------------------------------------------------
(* Characters and names.                                                   *)

kName == <<"n","a","m","e">>
kTable == <<"t","a","b","l","e">>
kTables == <<"t","a","b","l","e","s">>
kColumns == <<"c","o","l","u","m","n","s">>
kMethods == <<"m","e","t","h","o","d","s">>
kNestedObjInList == <<"n","e","s","t","e","d","_","o","b","j","_","i","n","_","l","i","s","t">>
kRandomAttr == <<"r","a","n","d","o","m","_","a","t","t","r">>
kRoot == <<"r","o","o","t">>
kAttrs == <<"a","t","t","r","s">>
kCount == <<"c","o","u","n","t">>
kValueName == <<"v","a","l","u","e","_","n","a","m","e">>
kSourceFile == <<"s","o","u","r","c","e","_","f","i","l","e">>
kVariablePath == <<"v","a","r","i","a","b","l","e","_","p","a","t","h">>
kMethod == <<"m","e","t","h","o","d">>
kIsResolved == <<"i","s","_","r","e","s","o","l","v","e","d">>
kValue == <<"_","v","a","l","u","e">>
kDataLoader == <<"d","a","t","a","_","l","o","a","d","e","r">>
kValueProperty == <<"v","a","l","u","e">>
kItems == <<"i","t","e","m","s">>
kKeys == <<"k","e","y","s">>
kValues == <<"v","a","l","u","e","s">>
kGetName == <<"g","e","t","_","n","a","m","e">>
kGetInputMenu == <<"g","e","t","_","i","n","p","u","t","_","m","e","n","u">>
kAddVar == <<"a","d","d","_","v","a","r">>
kSetVar == <<"s","e","t","_","v","a","r">>
kGetVar == <<"g","e","t","_","v","a","r">>
kGetExtensionConfig == <<"g","e","t","_","e","x","t","e","n","s","i","o","n","_","c","o","n","f","i","g">>
kSearch == <<"s","e","a","r","c","h">>
kSearches == <<"s","e","a","r","c","h","e","s">>
kNam == <<"n","a","m">>
kItS == <<"i","t","'","s">>
kEmpty == <<>>
kConfigSuffix == <<"C","O","N","F","I","G","_","S","U","F","F","I","X">>

CONFIG_SUFFIX == <<"_","c","o","n","f","i","g">>

UpperCase == <<"A","B","C","D","E","F","G","H","I","J","K","L","M",
               "N","O","P","Q","R","S","T","U","V","W","X","Y","Z">>

LowerCase == <<"a","b","c","d","e","f","g","h","i","j","k","l","m",
               "n","o","p","q","r","s","t","u","v","w","x","y","z">>

IsUpperChar(c) == \E i \in 1..26 : UpperCase[i] = c

IsLowerChar(c) == \E i \in 1..26 : LowerCase[i] = c

\* str.lower() of one character
LowerChar(c) ==
    IF IsUpperChar(c)
    THEN LowerCase[CHOOSE i \in 1..26 : UpperCase[i] = c]
    ELSE c

LowerStr(s) == [i \in 1..Len(s) |-> LowerChar(s[i])]

\* s[start:stop] of Python for stop <= 0 < -start: both counted from the end
EndSlice(s, start, stop) ==
    LET n == Len(s)
        lo == IF n + start < 0 THEN 0 ELSE n + start
        hi == IF n + stop < 0 THEN 0 ELSE n + stop
    IN  IF hi <= lo THEN <<>> ELSE SubSeq(s, lo + 1, hi)

is_snake_case(s) ==
    /\ \A i \in 1..Len(s) : s[i] # "-"
    /\ \A i \in 1..Len(s) : LowerChar(s[i]) = s[i]

\* str.isupper(): a cased character exists and no cased character is lowercase
IsUpperStr(s) ==
    /\ \E i \in 1..Len(s) : IsUpperChar(s[i])
    /\ \A i \in 1..Len(s) : ~IsLowerChar(s[i])

RECURSIVE SnakeTail(_)
SnakeTail(s) ==
    IF s = <<>> THEN <<>>
    ELSE (IF IsUpperChar(Head(s)) THEN <<"_", LowerChar(Head(s))>> ELSE <<Head(s)>>)
         \o SnakeTail(Tail(s))

change_to_snake_case(s) ==
    IF is_snake_case(s) THEN s
    ELSE IF IsUpperStr(s) THEN LowerStr(s)
    ELSE <<LowerChar(s[1])>> \o SnakeTail(Tail(s))

\* s without its last n characters
DropLast(s, n) == SubSeq(s, 1, Len(s) - n)

\* make_singular that always drops the last character
make_singular_DropOne(string) == DropLast(string, 1)

\* is_plural of a non-empty string (string[-1] of "" raises IndexError)
is_plural(string) ==
    IF EndSlice(string, -3, 0) = <<"i","e","s">> THEN TRUE
    ELSE string[Len(string)] = "s"

make_singular(string) ==
    IF EndSlice(string, -3, 0) = <<"i","e","s">>
    THEN EndSlice(string, -Len(string), -3) \o <<"y">>
    ELSE IF EndSlice(string, -2, 0) = <<"e","s">> /\ EndSlice(string, -4, -2) = <<"c","h">>
    THEN EndSlice(string, -Len(string), -2)
    ELSE EndSlice(string, -Len(string), -1)

---------------------------------------------------------------------------
(* Values.                                                                 *)

Null == [t |-> "null", v |-> <<>>]
Str(s) == [t |-> "str", v |-> s]
Num(n) == [t |-> "num", v |-> n]
Bool(b) == [t |-> "bool", v |-> b]
Dict(kv) == [t |-> "dict", v |-> kv]
List(xs) == [t |-> "list", v |-> xs]
Raise(e) == [t |-> "raise", v |-> e]

IsRaise(x) == x.t = "raise"
IsScalar(x) == x.t \in {"str", "num", "bool"}

\* a string is a sequence of tokens: a literal character or a {{ name }} expression
Lit(c) == <<"lit", c>>
Ref(k) == <<"ref", k>>

HasKey(kv, k) == \E i \in 1..Len(kv) : kv[i][1] = k

Lookup(kv, k) == kv[CHOOSE i \in 1..Len(kv) : kv[i][1] = k][2]

\* dict[k] = val: an existing key keeps its position, a new key goes last
Put(kv, k, val) ==
    IF HasKey(kv, k)
    THEN [i \in 1..Len(kv) |-> IF kv[i][1] = k THEN <<k, val>> ELSE kv[i]]
    ELSE Append(kv, <<k, val>>)

---------------------------------------------------------------------------
(* Classes: Config and the subclasses the repository defines.              *)

\* cls.__name__
ClassName(cls) ==
    CASE cls = "Config" -> <<"C","o","n","f","i","g">>
      [] cls = "CLIConfig" -> <<"C","L","I","C","o","n","f","i","g">>
      [] cls = "ConfirmationMenuConfig" ->
            <<"C","o","n","f","i","r","m","a","t","i","o","n","M","e","n","u",
              "C","o","n","f","i","g">>
      [] cls = "InputMenuConfig" ->
            <<"I","n","p","u","t","M","e","n","u","C","o","n","f","i","g">>
      [] cls = "SearchConfig" -> <<"S","e","a","r","c","h","C","o","n","f","i","g">>
      [] cls = "TableConfig" -> <<"T","a","b","l","e","C","o","n","f","i","g">>
      [] cls = "NestedObjInListConfig" ->
            <<"N","e","s","t","e","d","O","b","j","I","n","L","i","s","t",
              "C","o","n","f","i","g">>

\* the instance __dict__ that cls.__init__ leaves
ClassInit(cls) ==
    CASE cls = "Config" -> <<>>
      [] cls = "CLIConfig" -> <<>>
      [] cls = "ConfirmationMenuConfig" -> << <<kAttrs, Null>> >>
      [] cls = "InputMenuConfig" -> <<>>
      [] cls = "SearchConfig" ->
            << <<kValueName, Null>>, <<kSourceFile, Null>>, <<kVariablePath, Null>>,
               <<kMethod, Null>>, <<kIsResolved, Bool(FALSE)>>, <<kValue, Null>>,
               <<kDataLoader, Null>> >>
      [] cls = "TableConfig" ->
            << <<kName, Null>>, <<kMethods, Null>>, <<kColumns, Null>>,
               <<kNestedObjInList, Null>> >>
      [] cls = "NestedObjInListConfig" -> << <<kRandomAttr, Null>> >>

\* cls()
New(cls) == [t |-> "config", cls |-> cls, v |-> ClassInit(cls)]

\* Config.get_name
get_name(cls) == change_to_snake_case(ClassName(cls))

\* setattr(node, attr_name, attr_value): SearchConfig.value is a property whose
\* setter marks the node resolved and stores into _value
Setattr(node, attr_name, attr_value) ==
    IF node.cls = "SearchConfig" /\ attr_name = kValueProperty
    THEN [node EXCEPT !.v = Put(Put(node.v, kIsResolved, Bool(TRUE)), kValue, attr_value)]
    ELSE [node EXCEPT !.v = Put(node.v, attr_name, attr_value)]

\* Config.add_var / Config.set_var: setattr, the node itself is returned
add_var(node, attr_name, attr_value) == Setattr(node, attr_name, attr_value)

set_var(node, attr_name, attr_value) == Setattr(node, attr_name, attr_value)

\* register_config(root)(cls) applied to the registry reg
\* register_config that keeps an entry that is already there
register_config_KeepFirst(reg, cls, root) ==
    LET name == IF root THEN kRoot ELSE get_name(cls)
    IN  IF name \in DOMAIN reg THEN reg
        ELSE [n \in DOMAIN reg \cup {name} |-> IF n = name THEN cls ELSE reg[n]]

register_config(reg, cls, root) ==
    LET name == IF root THEN kRoot ELSE get_name(cls)
    IN  [n \in DOMAIN reg \cup {name} |-> IF n = name THEN cls ELSE reg[n]]

\* NewFromRegistry without the registry lookup
NewFromRegistry_Generic(reg, config_name) == New("Config")

\* config_registry[config_name]() if config_name in config_registry else Config()
NewFromRegistry(reg, config_name) ==
    IF config_name \in DOMAIN reg THEN New(reg[config_name]) ELSE New("Config")

---------------------------------------------------------------------------
(* The tree instantiator (app_loader.instantiate_configs_in_dict).         *)

RECURSIVE recursively_set_attrs(_, _, _, _)
RECURSIVE SetItems(_, _, _)
RECURSIVE ItemConfigs(_, _, _)

\* ItemConfig that leaves the element's fields unset
ItemConfig_Unpopulated(reg, config_name, item) == NewFromRegistry(reg, config_name)

\* one element of an object list: a fresh node, populated when the item is map-like
ItemConfig(reg, config_name, item) ==
    LET new_config == NewFromRegistry(reg, config_name)
    IN  IF item.t = "dict" THEN SetItems(reg, new_config, item.v) ELSE new_config

\* the loop "for item in vals": the list of element nodes, or what an element raised
ItemConfigs(reg, config_name, items) ==
    IF items = <<>> THEN List(<<>>)
    ELSE LET first == ItemConfig(reg, config_name, Head(items))
         IN  IF IsRaise(first) THEN first
             ELSE LET rest == ItemConfigs(reg, config_name, Tail(items))
                  IN  IF IsRaise(rest) THEN rest ELSE List(<<first>> \o rest.v)

\* the loop "for att, val in vals.items(): recursively_set_attrs(instance, att, val)"
SetItems(reg, instance, kv) ==
    IF kv = <<>> THEN instance
    ELSE LET r == recursively_set_attrs(reg, instance, kv[1][1], kv[1][2])
         IN  IF IsRaise(r) THEN r ELSE SetItems(reg, r, Tail(kv))

\* the list branch of recursively_set_attrs: the value attached for a sequence
NestedListValue(reg, attr, vals) ==
    IF ~is_plural(attr) THEN vals
    ELSE IF vals.v = <<>> THEN Raise("IndexError")
    ELSE IF vals.v[1].t # "dict" THEN vals
    ELSE ItemConfigs(reg, make_singular(attr) \o CONFIG_SUFFIX, vals.v)

recursively_set_attrs(reg, instance, attr, vals) ==
    IF vals.t = "dict"
    THEN LET new_config == SetItems(reg, NewFromRegistry(reg, attr \o CONFIG_SUFFIX), vals.v)
         IN  IF IsRaise(new_config) THEN new_config
             ELSE add_var(instance, attr, new_config)
    ELSE IF vals.t = "list"
    THEN LET val == NestedListValue(reg, attr, vals)
         IN  IF IsRaise(val) THEN val ELSE add_var(instance, attr, val)
    ELSE add_var(instance, attr, vals)

\* the value the top-level loop attaches for one (ext_name, ext_values) pair
TopLevelValue(reg, ext_name, ext_values) ==
    LET config_instance == NewFromRegistry(reg, ext_name \o CONFIG_SUFFIX)
    IN  IF ext_values.t = "null" THEN config_instance
        ELSE IF ext_values.t = "dict" THEN SetItems(reg, config_instance, ext_values.v)
        ELSE IF ext_values.t = "list"
        THEN IF ext_values.v = <<>> THEN config_instance
             ELSE ItemConfigs(reg, make_singular(ext_name) \o CONFIG_SUFFIX, ext_values.v)
        ELSE config_instance

RECURSIVE TopLevelLoop(_, _, _)
\* the loop "for ext_name, ext_values in config_dict.items()"
TopLevelLoop(reg, config_to_set, kv) ==
    IF kv = <<>> THEN config_to_set
    ELSE LET val_to_set == TopLevelValue(reg, kv[1][1], kv[1][2])
         IN  IF IsRaise(val_to_set) THEN val_to_set
             ELSE TopLevelLoop(reg, add_var(config_to_set, kv[1][1], val_to_set), Tail(kv))

instantiate_configs_in_dict(reg, config_dict, config_to_set) ==
    TopLevelLoop(reg,
                 IF config_to_set.t = "null" THEN New("Config") ELSE config_to_set,
                 config_dict.v)

---------------------------------------------------------------------------
(* The template-value renderer (app_loader.render_config_args).            *)

\* key.startswith("_")
StartsWithUnderscore(key) == key # <<>> /\ key[1] = "_"

RECURSIVE convert_to_dict_KeepAll(_)
\* convert_to_dict without the test on the key
convert_to_dict_KeepAll(obj) ==
    IF obj.t # "config" THEN obj
    ELSE LET Element(val) ==
                 IF val.t = "list"
                 THEN List([i \in 1..Len(val.v) |-> convert_to_dict_KeepAll(val.v[i])])
                 ELSE convert_to_dict_KeepAll(val)
         IN  Dict([i \in 1..Len(obj.v) |-> <<obj.v[i][1], Element(obj.v[i][2])>>])

RECURSIVE convert_to_dict(_)
convert_to_dict(obj) ==
    IF obj.t # "config" THEN obj
    ELSE LET Public(e) == ~StartsWithUnderscore(e[1])
             kept == SelectSeq(obj.v, Public)
             Element(val) ==
                 IF val.t = "list"
                 THEN List([i \in 1..Len(val.v) |-> convert_to_dict(val.v[i])])
                 ELSE convert_to_dict(val)
         IN  Dict([i \in 1..Len(kept) |-> <<kept[i][1], Element(kept[i][2])>>])

RECURSIVE json_dumps(_)
\* json.dumps: the JSON document of a Python value
json_dumps(x) ==
    CASE x.t = "dict" ->
            [t |-> "object", v |-> [i \in 1..Len(x.v) |-> <<x.v[i][1], json_dumps(x.v[i][2])>>]]
      [] x.t = "list" -> [t |-> "array", v |-> [i \in 1..Len(x.v) |-> json_dumps(x.v[i])]]
      [] x.t = "str" -> [t |-> "string", v |-> x.v]
      [] x.t = "num" -> [t |-> "number", v |-> x.v]
      [] x.t = "bool" -> [t |-> IF x.v THEN "true" ELSE "false", v |-> <<>>]
      [] x.t = "null" -> [t |-> "null", v |-> <<>>]

RECURSIVE json_loads(_)
\* json.loads: the Python value of a JSON document
json_loads(j) ==
    CASE j.t = "object" ->
            Dict([i \in 1..Len(j.v) |-> <<j.v[i][1], json_loads(j.v[i][2])>>])
      [] j.t = "array" -> List([i \in 1..Len(j.v) |-> json_loads(j.v[i])])
      [] j.t = "string" -> Str(j.v)
      [] j.t = "number" -> Num(j.v)
      [] j.t = "true" -> Bool(TRUE)
      [] j.t = "false" -> Bool(FALSE)
      [] j.t = "null" -> Null

Digit(d) == <<"0","1","2","3","4","5","6","7","8","9">>[d + 1]

RECURSIVE Digits(_)
Digits(n) == IF n < 10 THEN <<Lit(Digit(n))>> ELSE Digits(n \div 10) \o <<Lit(Digit(n % 10))>>

\* the text Jinja writes for the value of an expression: str(value)
TextOf(x) ==
    CASE x.t = "str" -> x.v
      [] x.t = "num" -> Digits(x.v)
      [] x.t = "bool" -> IF x.v THEN <<Lit("T"), Lit("r"), Lit("u"), Lit("e")>>
                         ELSE <<Lit("F"), Lit("a"), Lit("l"), Lit("s"), Lit("e")>>
      [] x.t = "null" -> <<Lit("N"), Lit("o"), Lit("n"), Lit("e")>>
      [] OTHER -> << <<"repr", x>> >>

RECURSIVE RenderTokens(_, _)

RECURSIVE RenderTokens_NoArgs(_, _)
\* RenderTokens with an empty namespace: every expression is undefined
RenderTokens_NoArgs(tokens, render_args) ==
    IF tokens = <<>> THEN <<>>
    ELSE (IF Head(tokens)[1] # "ref" THEN <<Head(tokens)>> ELSE <<>>)
         \o RenderTokens_NoArgs(Tail(tokens), render_args)

\* one pass over the template text: each {{ name }} becomes the text of
\* render_args[name], nothing when the name is undefined
RenderTokens(tokens, render_args) ==
    IF tokens = <<>> THEN <<>>
    ELSE LET tok == Head(tokens)
             out == IF tok[1] # "ref" THEN <<tok>>
                    ELSE IF HasKey(render_args.v, tok[2])
                    THEN TextOf(Lookup(render_args.v, tok[2]))
                    ELSE <<>>
         IN  out \o RenderTokens(Tail(tokens), render_args)

RECURSIVE render_string(_, _)
\* render_string on the JSON text: expressions occur inside its strings only
render_string(j, render_args) ==
    CASE j.t = "object" ->
            [j EXCEPT !.v = [i \in 1..Len(j.v) |->
                                <<j.v[i][1], render_string(j.v[i][2], render_args)>>]]
      [] j.t = "array" ->
            [j EXCEPT !.v = [i \in 1..Len(j.v) |-> render_string(j.v[i], render_args)]]
      [] j.t = "string" -> [j EXCEPT !.v = RenderTokens(j.v, render_args)]
      [] OTHER -> j

RECURSIVE Overlay_Every(_, _)
\* Overlay without the isinstance test: every attribute is set again
Overlay_Every(rendered, items) ==
    IF items = <<>> THEN rendered
    ELSE Overlay_Every(set_var(rendered, items[1][1], items[1][2]), Tail(items))

RECURSIVE Overlay(_, _)
\* the loop over config_obj.items(): plain strings are set again on the result
Overlay(rendered, items) ==
    IF items = <<>> THEN rendered
    ELSE LET already_set_field == items[1][1]
             already_set_value == items[1][2]
         IN  Overlay(IF already_set_value.t = "str"
                     THEN set_var(rendered, already_set_field, already_set_value)
                     ELSE rendered,
                     Tail(items))

\* new_dict of render_config_args
RenderedDict(obj) ==
    LET render_args == convert_to_dict(obj)
    IN  json_loads(render_string(json_dumps(render_args), render_args))

\* the overlay loop, reached when the re-instantiation has not raised
Overlaid(rendered, items) == IF IsRaise(rendered) THEN rendered ELSE Overlay(rendered, items)

render_config_args(reg, obj) ==
    Overlaid(instantiate_configs_in_dict(reg, RenderedDict(obj), New("Config")), obj.v)

\* CLIConfig.get_extension_config: vars(self).get(ext_name), Config() when falsy
get_extension_config(root, ext_name) ==
    LET config == IF HasKey(root.v, ext_name) THEN Lookup(root.v, ext_name) ELSE Null
        truthy == \/ config.t = "config"
                  \/ config.t \in {"list", "dict", "str"} /\ config.v # <<>>
                  \/ config.t = "num" /\ config.v # 0
                  \/ config.t = "bool" /\ config.v
    IN  IF truthy THEN config ELSE New("Config")

---------------------------------------------------------------------------
(* Building the root configuration (app_loader.py, lines 79-112).          *)

\* an app directory without app_config.yml
NoFile == [t |-> "nofile", v |-> <<>>]

RECURSIVE UpdateAll(_, _)
\* dict.update
UpdateAll(kv, more) ==
    IF more = <<>> THEN kv
    ELSE UpdateAll(Put(kv, more[1][1], more[1][2]), Tail(more))

RECURSIVE CompileLoop(_, _)
CompileLoop(compiled, app_list) ==
    IF app_list = <<>> THEN compiled
    ELSE LET data == Head(app_list)
         IN  IF data.t = "dict" /\ data.v # <<>>
             THEN CompileLoop(UpdateAll(compiled, data.v), Tail(app_list))
             ELSE CompileLoop(compiled, Tail(app_list))

\* app_list: for each app of cli_data["apps"], its app_config.yml (NoFile when absent)
_compile_configs(app_list) == Dict(CompileLoop(<<>>, app_list))

\* create_cli_config_from_cli_from_data that passes no root instance
create_cli_config_from_cli_from_data_NoRoot(reg, app_list) ==
    instantiate_configs_in_dict(reg, _compile_configs(app_list), Null)

create_cli_config_from_cli_from_data(reg, app_list) ==
    instantiate_configs_in_dict(reg, _compile_configs(app_list), New(reg[kRoot]))

---------------------------------------------------------------------------
(* Enumerated inputs.                                                      *)

\* all sequences over S of length at most n
SeqsUpTo(S, n) == UNION {[1..k -> S] : k \in 0..n}

StrV == Str(<<Lit("v")>>)

Scalars == {StrV, Num(1), Bool(TRUE)}

Leaves == Scalars \cup {Null}

FieldKeys == {kName, kNestedObjInList}

FieldEntries == {<<k, v>> : k \in FieldKeys, v \in Leaves \cup {Dict(<<>>), List(<<>>)}}

\* mappings of at most two keys whose values are leaves or empty containers
FieldDicts ==
    {Dict(<<>>)} \cup {Dict(<<e>>) : e \in FieldEntries} \cup
    {Dict(<<p[1], p[2]>>) : p \in {q \in FieldEntries \X FieldEntries : q[1][1] # q[2][1]}}

\* elements of sequences: a scalar and map-like elements
Elems ==
    {StrV, Dict(<<>>), Dict(<< <<kName, StrV>> >>),
     Dict(<< <<kName, StrV>>, <<kNestedObjInList, Dict(<< <<kRandomAttr, StrV>> >>)>> >>),
     Dict(<< <<kColumns, List(<<>>)>> >>)}

Lists == {List(xs) : xs \in SeqsUpTo(Elems, MaxListLen)}

NestedValues == Leaves \cup FieldDicts \cup Lists

NestedKeys == {kTable, kTables, kName, kColumns}

ExtDicts ==
    {Dict(<<>>)} \cup {Dict(<< <<k, v>> >>) : k \in NestedKeys, v \in NestedValues}

TopValues == Leaves \cup ExtDicts \cup Lists

TopKeys == {kTable, kTables, kName}

\* one app whose app_config.yml holds one top-level key
RichApps == {Dict(<< <<k, v>> >>) : k \in TopKeys, v \in TopValues}

\* apps without a file, with an empty file, or with one small entry
SmallApps ==
    {NoFile, Null} \cup {Dict(<< <<k, v>> >>) : k \in {kTable, kName}, v \in {Null, StrV}}

AppLists == {<<a>> : a \in RichApps} \cup SeqsUpTo(SmallApps, MaxApps)

\* classes that application modules register when they are imported
AppClasses == {"TableConfig", "NestedObjInListConfig"}

---------------------------------------------------------------------------
(* The state machine.                                                      *)

\* the registrations config_registrar.py makes when it is imported
BaseRegistry ==
    register_config(
        register_config(
            register_config(
                register_config(<<>>, "ConfirmationMenuConfig", FALSE),
                "InputMenuConfig", FALSE),
            "SearchConfig", FALSE),
        "CLIConfig", TRUE)

\* before any call on a node
NoCall == [op |-> "none"]

Init ==
    /\ config_registry = BaseRegistry
    /\ pc = "load"
    /\ cli_data = Null
    /\ cli_config = Null
    /\ config_obj = Null
    /\ rendered_config = Null
    /\ heap = <<>>
    /\ call = NoCall
    /\ result = Null
    /\ steps = 0
    /\ hooks = <<>>
    /\ data_cache = <<>>
    /\ loads = <<>>

\* an application module is imported: @register_config(root=root) class cls
Register(cls, root) ==
    /\ pc \in {"load", "node"}
    /\ config_registry' = register_config(config_registry, cls, root)
    /\ call' = [op |-> "register_config", cls |-> cls, root |-> root,
                before |-> config_registry]
    /\ UNCHANGED <<pc, cli_data, cli_config, config_obj, rendered_config>>
    /\ UNCHANGED <<heap, result, steps, runVars>>

\* create_cli_config_from_cli_from_data over the apps' app_config.yml files
CreateCliConfig(app_list) ==
    /\ pc = "load"
    /\ cli_data' = _compile_configs(app_list)
    /\ cli_config' = create_cli_config_from_cli_from_data(config_registry, app_list)
    /\ pc' = IF IsRaise(cli_config') THEN "raised" ELSE "built"
    /\ UNCHANGED <<config_registry, config_obj, rendered_config>>
    /\ UNCHANGED <<callVars, runVars>>

Next ==
    \/ \E cls \in AppClasses, root \in BOOLEAN : Register(cls, root)
    \/ \E app_list \in AppLists : CreateCliConfig(app_list)

Spec == Init /\ [][Next]_vars

---------------------------------------------------------------------------
(* The rendering machine: an extension takes its configuration from the    *)
(* root (cli.py, line 154) and renders it (Extension.render_config_args).  *)

sV == <<Lit("v")>>
sRefName == <<Ref(kName)>>
sRefCount == <<Ref(kCount)>>
sMixed == <<Lit("v"), Ref(kName), Lit("w")>>

FieldStrings == {sV, sRefName, sRefCount, sMixed}

\* the values an extension's configuration gives to each of its keys
RenderValues(k) ==
    CASE k = kName -> {Str(sV), Str(sRefCount), Num(1), Null}
      [] k = kCount -> {Num(1), Bool(TRUE), Str(sV)}
      [] k = kNestedObjInList -> {Dict(<< <<kRandomAttr, Str(s)>> >>) : s \in FieldStrings}
      [] k = kTables ->
            {List(xs) : xs \in SeqsUpTo({Dict(<< <<kName, Str(s)>> >>) : s \in {sV, sRefName}},
                                        MaxListLen) \ {<<>>}}
      [] k = kColumns -> {List(<< Str(s) >>) : s \in {sV, sRefName}}

RenderKeys == {kName, kCount, kNestedObjInList, kTables, kColumns}

RenderEntries == UNION {{<<k, v>> : v \in RenderValues(k)} : k \in RenderKeys}

\* an extension's configuration: one or two keys
RenderExtDicts ==
    {Dict(<<e>>) : e \in RenderEntries} \cup
    {Dict(<<p[1], p[2]>>) : p \in {q \in RenderEntries \X RenderEntries : q[1][1] # q[2][1]}}

RenderAppLists == {<< Dict(<< <<kTable, d>> >>) >> : d \in RenderExtDicts}

ExtensionNames == {kTable, kName}

\* cli.py, line 154: the extension's config is its section of the root config
SetExtensionConfig(ext_name) ==
    /\ pc = "built"
    /\ config_obj' = get_extension_config(cli_config, ext_name)
    /\ pc' = "selected"
    /\ UNCHANGED <<config_registry, cli_data, cli_config, rendered_config>>
    /\ UNCHANGED <<callVars, runVars>>

\* Extension.render_config_args
RenderConfigArgs ==
    /\ pc = "selected"
    /\ rendered_config' = render_config_args(config_registry, config_obj)
    /\ pc' = "rendered"
    /\ UNCHANGED <<config_registry, cli_data, cli_config, config_obj>>
    /\ UNCHANGED <<callVars, runVars>>

NextRender ==
    \/ \E cls \in AppClasses : Register(cls, FALSE)
    \/ \E app_list \in RenderAppLists : CreateCliConfig(app_list)
    \/ \E ext_name \in ExtensionNames : SetExtensionConfig(ext_name)
    \/ RenderConfigArgs

SpecRender == Init /\ [][NextRender]_vars

---------------------------------------------------------------------------
(* Source positions and what the instantiator attached for them.           *)

Missing == [t |-> "missing", v |-> <<>>]

\* the type the naming convention gives to key: the registry entry for
\* key + '_config', the generic Config when there is none
ExpectedClass(reg, key) ==
    IF key \o CONFIG_SUFFIX \in DOMAIN reg THEN reg[key \o CONFIG_SUFFIX] ELSE "Config"

RECURSIVE Pairs(_, _, _, _)
RECURSIVE PairsBelow(_, _)

\* every (key, value) pair of the mapping kv, with the attribute that node holds
\* for it, followed through child nodes and through the elements of object
\* lists.  top: a pair of the top-level mapping; elem: a field of a list element.
Pairs(kv, node, top, elem) ==
    UNION {LET k == kv[i][1]
               sv == kv[i][2]
               rv == IF HasKey(node.v, k) THEN Lookup(node.v, k) ELSE Missing
           IN  {[top |-> top, elem |-> elem, key |-> k, src |-> sv, res |-> rv]}
               \cup PairsBelow(sv, rv)
           : i \in 1..Len(kv)}

PairsBelow(sv, rv) ==
    IF sv.t = "dict" /\ rv.t = "config" THEN Pairs(sv.v, rv, FALSE, FALSE)
    ELSE IF sv.t = "list" /\ rv.t = "list" /\ Len(sv.v) = Len(rv.v)
    THEN UNION {IF sv.v[i].t = "dict" /\ rv.v[i].t = "config"
                THEN Pairs(sv.v[i].v, rv.v[i], FALSE, TRUE)
                ELSE {}
                : i \in 1..Len(sv.v)}
    ELSE {}

\* the pairs of the last build
BuiltPairs == IF pc = "built" THEN Pairs(cli_data.v, cli_config, TRUE, FALSE) ELSE {}

---------------------------------------------------------------------------
(* Claims about the tree instantiator, under Spec.                         *)

\* C1: whenever instantiate returns, every key N of the source that holds a
\* mapping, at the top level or below it (through child nodes and the elements
\* of object lists), has under N a node whose class is the registry entry for
\* N + '_config', and the generic Config when no such entry is registered.
C1_MappingTyped ==
    \A p \in BuiltPairs :
        p.src.t = "dict" =>
            /\ p.res.t = "config"
            /\ p.res.cls = ExpectedClass(config_registry, p.key)

\* a nested mapping under a registered name and a top-level one under an
\* unregistered name, in one build
C1_Witness ==
    /\ \E p \in BuiltPairs :
         ~p.top /\ p.src.t = "dict" /\ p.res.t = "config" /\ p.res.cls = "TableConfig"
    /\ \E p \in BuiltPairs :
         p.top /\ p.src.t = "dict" /\ p.res.t = "config" /\ p.res.cls = "Config"

\* C2 (as claimed): a sequence under a plural key whose first element is
\* map-like becomes a list of nodes typed by singular(K) + '_config'; every
\* other sequence is attached as the raw list, at the top level too.
C2_SequenceConvention ==
    \A p \in BuiltPairs :
        p.src.t = "list" =>
            IF is_plural(p.key) /\ p.src.v # <<>> /\ p.src.v[1].t = "dict"
            THEN /\ p.res.t = "list"
                 /\ Len(p.res.v) = Len(p.src.v)
                 /\ \A i \in 1..Len(p.res.v) :
                        /\ p.res.v[i].t = "config"
                        /\ p.res.v[i].cls = ExpectedClass(config_registry, make_singular(p.key))
            ELSE p.res = p.src

\* C3 (as claimed): a scalar value is the attribute's value, at every level.
C3_ScalarStored ==
    \A p \in BuiltPairs : IsScalar(p.src) => p.res = p.src

\* C4 (as claimed): a null value yields an empty node of the type registered for
\* key + '_config' (generic when unregistered), at every level.
C4_NullGivesEmptyNode ==
    \A p \in BuiltPairs :
        p.src.t = "null" => p.res = New(ExpectedClass(config_registry, p.key))

\* C5 (as claimed): instantiate never raises.
C5_NeverRaises == pc # "raised"

\* C6: whenever instantiate returns, every field of every element of an object
\* list follows the naming convention: a scalar field is stored as the scalar,
\* a mapping field at key F is a node typed by the registry entry for
\* F + '_config' (generic when unregistered).
C6_ElementFields ==
    \A p \in BuiltPairs :
        p.elem =>
            /\ IsScalar(p.src) => p.res = p.src
            /\ p.src.t = "dict" =>
                   /\ p.res.t = "config"
                   /\ p.res.cls = ExpectedClass(config_registry, p.key)

\* an element of an object list with a scalar field and a mapping field under
\* a registered name
C6_Witness ==
    /\ \E p \in BuiltPairs : p.elem /\ p.key = kName /\ p.src = StrV /\ p.res = StrV
    /\ \E p \in BuiltPairs :
         /\ p.elem /\ p.src.t = "dict" /\ p.res.t = "config"
         /\ p.res.cls = "NestedObjInListConfig"
         /\ p.res.v = << <<kRandomAttr, StrV>> >>

\* C7: the node create_cli_config_from_cli_from_data returns is an instance of
\* the class registered under 'root' at the time of the call, and every
\* top-level key of the compiled document is one of its attributes.
C7_RootConfig ==
    pc = "built" =>
        /\ cli_config.t = "config"
        /\ cli_config.cls = config_registry[kRoot]
        /\ \A i \in 1..Len(cli_data.v) : HasKey(cli_config.v, cli_data.v[i][1])

\* a root class registered after CLIConfig, and a document of two keys
C7_Witness ==
    /\ pc = "built"
    /\ config_registry[kRoot] = "NestedObjInListConfig"
    /\ cli_config.cls = "NestedObjInListConfig"
    /\ Len(cli_data.v) = 2

---------------------------------------------------------------------------
(* Claims about the renderer, under SpecRender.                            *)

RECURSIVE NoTemplate(_)
\* no string of x holds a {{ }} expression
NoTemplate(x) ==
    CASE x.t = "str" -> \A i \in 1..Len(x.v) : x.v[i][1] # "ref"
      [] x.t \in {"config", "dict"} -> \A i \in 1..Len(x.v) : NoTemplate(x.v[i][2])
      [] x.t = "list" -> \A i \in 1..Len(x.v) : NoTemplate(x.v[i])
      [] OTHER -> TRUE

RECURSIVE FieldEq(_, _)
\* field-for-field equality: the same attribute names with equal values,
\* lists element by element
FieldEq(a, b) ==
    IF a.t = "config" /\ b.t = "config"
    THEN /\ {a.v[i][1] : i \in 1..Len(a.v)} = {b.v[i][1] : i \in 1..Len(b.v)}
         /\ \A i \in 1..Len(a.v) : FieldEq(a.v[i][2], Lookup(b.v, a.v[i][1]))
    ELSE IF a.t = "list" /\ b.t = "list"
    THEN /\ Len(a.v) = Len(b.v)
         /\ \A i \in 1..Len(a.v) : FieldEq(a.v[i], b.v[i])
    ELSE a.t = b.t /\ a = b

Rendered == pc = "rendered" /\ ~IsRaise(rendered_config)

\* C8 (as claimed): rendering a node without template expressions returns a
\* node that is field-for-field equal to it.
C8_RoundTrip ==
    Rendered /\ NoTemplate(config_obj) => FieldEq(config_obj, rendered_config)

\* the value of attribute k of node, Missing when it has none
Attr(node, k) == IF HasKey(node.v, k) THEN Lookup(node.v, k) ELSE Missing

\* what the instantiator makes of the substituted snapshot, before the overlay
FreshConfig ==
    instantiate_configs_in_dict(config_registry, RenderedDict(config_obj), New("Config"))

\* C9: every attribute of the node given to render that is a plain string has
\* its pre-render value in the returned node, whatever the substitution gave;
\* an attribute that is a node or a list has the value the re-instantiation of
\* the substituted snapshot produced, not the original one.
C9_Overlay ==
    Rendered =>
        \A i \in 1..Len(config_obj.v) :
            LET k == config_obj.v[i][1]
                val == config_obj.v[i][2]
            IN  /\ val.t = "str" =>
                       HasKey(rendered_config.v, k) /\ Lookup(rendered_config.v, k) = val
                /\ val.t \in {"config", "list"} =>
                       Attr(rendered_config, k) = Attr(FreshConfig, k)

\* a rendered node with a string attribute holding an expression, kept as it
\* was, beside a child node that the substitution changed
C9_Witness ==
    /\ Rendered
    /\ HasKey(config_obj.v, kName) /\ Lookup(config_obj.v, kName) = Str(sRefCount)
    /\ Lookup(rendered_config.v, kName) = Str(sRefCount)
    /\ HasKey(config_obj.v, kNestedObjInList)
    /\ Lookup(config_obj.v, kNestedObjInList).t = "config"
    /\ Lookup(rendered_config.v, kNestedObjInList) # Lookup(config_obj.v, kNestedObjInList)

IndexKey(i) == <<"[", Digit(i), "]">>

RECURSIVE StringsIn(_, _)
\* the string fields of x reached through nodes and the elements of object
\* lists, each with its path
StringsIn(x, path) ==
    CASE x.t = "config" ->
            UNION {StringsIn(x.v[i][2], Append(path, x.v[i][1])) : i \in 1..Len(x.v)}
      [] x.t = "list" ->
            UNION {IF x.v[i].t = "config" THEN StringsIn(x.v[i], Append(path, IndexKey(i)))
                   ELSE {}
                   : i \in 1..Len(x.v)}
      [] x.t = "str" -> {<<path, x.v>>}
      [] OTHER -> {}

\* the string fields below the top level of the node given to render
NestedStrings == {f \in StringsIn(config_obj, <<>>) : Len(f[1]) > 1}

RECURSIVE ValueAt(_, _)
ValueAt(x, path) ==
    IF path = <<>> THEN x
    ELSE IF x.t = "config" /\ HasKey(x.v, Head(path))
    THEN ValueAt(Lookup(x.v, Head(path)), Tail(path))
    ELSE IF x.t = "list" /\ \E i \in 1..Len(x.v) : IndexKey(i) = Head(path)
    THEN ValueAt(x.v[CHOOSE i \in 1..Len(x.v) : IndexKey(i) = Head(path)], Tail(path))
    ELSE Missing

\* the top-level fields of the node given to render that the snapshot keeps
IsTopField(F) == HasKey(config_obj.v, F) /\ F[1] # "_"

NamesTopField(tokens) ==
    \E i \in 1..Len(tokens) : tokens[i][1] = "ref" /\ IsTopField(tokens[i][2])

RECURSIVE Substituted(_, _)
\* tokens with every {{ F }} replaced by Text[F] (by nothing when F is no field)
Substituted(tokens, Text) ==
    IF tokens = <<>> THEN <<>>
    ELSE (IF Head(tokens)[1] # "ref" THEN <<Head(tokens)>>
          ELSE IF Head(tokens)[2] \in DOMAIN Text THEN Text[Head(tokens)[2]]
          ELSE <<>>)
         \o Substituted(Tail(tokens), Text)

TopFields == {config_obj.v[i][1] : i \in {j \in 1..Len(config_obj.v) : IsTopField(config_obj.v[j][1])}}

\* the text of each top-level field as it stands before render
PreRenderText == [F \in TopFields |-> TextOf(Lookup(config_obj.v, F))]

\* the text of each top-level field with its own expressions substituted
ResolvedText == [F \in TopFields |-> Substituted(PreRenderText[F], PreRenderText)]

\* C10 (as claimed): a string field below the top level that names a top-level
\* field F holds, after render, the resolved value of F in place of the
\* expression: F's value with F's own expressions substituted.
C10_ResolvedValue ==
    Rendered =>
        \A f \in NestedStrings :
            NamesTopField(f[2]) =>
                ValueAt(rendered_config, f[1]) = Str(Substituted(f[2], ResolvedText))

\* C10 (amended): a string field below the top level that names a top-level
\* field F holds, after render, the text of F's value as it was before render
\* in place of the expression; F's own expressions are left as they are.
C10_PreRenderValue ==
    Rendered =>
        \A f \in NestedStrings :
            NamesTopField(f[2]) =>
                ValueAt(rendered_config, f[1]) = Str(Substituted(f[2], PreRenderText))

\* a nested field naming the top-level field name, whose own value is the
\* expression {{ count }}: after render the nested field holds {{ count }}
C10_Witness ==
    /\ Rendered
    /\ HasKey(config_obj.v, kName) /\ Lookup(config_obj.v, kName) = Str(sRefCount)
    /\ << <<kNestedObjInList, kRandomAttr>>, sRefName >> \in NestedStrings
    /\ ValueAt(rendered_config, <<kNestedObjInList, kRandomAttr>>) = Str(sRefCount)

---------------------------------------------------------------------------
(* Attribute access on a node (Config.__getattribute__ and its helpers).   *)

\* the names class Config defines, and what its subclasses add
ConfigMethods ==
    {kGetName, kGetInputMenu, kAddVar, kSetVar, kGetVar, kItems, kKeys, kValues}

ClassMethods(cls) ==
    IF cls = "CLIConfig" THEN ConfigMethods \cup {kGetExtensionConfig} ELSE ConfigMethods

Method(cls, name) == [t |-> "method", v |-> name, cls |-> cls]

Chars(s) == Str([i \in 1..Len(s) |-> Lit(s[i])])

NoAttributeText == <<" ","o","b","j","e","c","t"," ","h","a","s"," ","n","o"," ","a","t","t","r","i","b","u","t","e"," ">>

\* the message of the AttributeError that object.__getattribute__ raises
NoAttributeMessage(cls, name) ==
    <<"'">> \o ClassName(cls) \o <<"'">> \o NoAttributeText \o <<"'">> \o name \o <<"'">>

\* an AttributeError: its message, or the parts of the enriched message
AttributeError(text, attr, closest_match, warned) ==
    [t |-> "raise", v |-> "AttributeError", text |-> text, attr |-> attr,
     closest_match |-> closest_match, warned |-> warned]

\* object.__getattribute__: a property of the class, the instance __dict__, a
\* member of the class, else AttributeError
ObjectGetattribute(node, name) ==
    IF node.cls = "SearchConfig" /\ name = kValueProperty THEN Lookup(node.v, kValue)
    ELSE IF HasKey(node.v, name) THEN Lookup(node.v, name)
    ELSE IF name \in ClassMethods(node.cls) THEN Method(node.cls, name)
    ELSE IF name = kConfigSuffix THEN Chars(CONFIG_SUFFIX)
    ELSE AttributeError(NoAttributeMessage(node.cls, name), <<>>, <<>>, FALSE)

FirstQuote(s) == CHOOSE i \in 1..Len(s) : s[i] = "'" /\ \A j \in 1..(i - 1) : s[j] # "'"

HasQuote(s) == \E i \in 1..Len(s) : s[i] = "'"

RECURSIVE parse_attr_error_message(_)
\* re.findall("'([^']*)'", attr_err_msg)
parse_attr_error_message(attr_err_msg) ==
    IF ~HasQuote(attr_err_msg) THEN <<>>
    ELSE LET rest == SubSeq(attr_err_msg, FirstQuote(attr_err_msg) + 1, Len(attr_err_msg))
         IN  IF ~HasQuote(rest) THEN <<>>
             ELSE <<SubSeq(rest, 1, FirstQuote(rest) - 1)>>
                  \o parse_attr_error_message(SubSeq(rest, FirstQuote(rest) + 1, Len(rest)))

\* get_erroring_attr: "_, error_attr_name = parsed" unpacks exactly two parts,
\* any other number raises ValueError
Unpacks(message) == Len(parse_attr_error_message(message)) = 2

get_erroring_attr(message) == parse_attr_error_message(message)[2]

\* the characters of names in code-point order (str comparison of Python)
CodePoints ==
    <<"'">> \o UpperCase \o <<"_">> \o LowerCase

Ord(c) == CHOOSE i \in 1..Len(CodePoints) : CodePoints[i] = c

RECURSIVE StrLess(_, _)
\* s < t for two strings
StrLess(s, t) ==
    IF t = <<>> THEN FALSE
    ELSE IF s = <<>> THEN TRUE
    ELSE IF Head(s) # Head(t) THEN Ord(Head(s)) < Ord(Head(t))
    ELSE StrLess(Tail(s), Tail(t))

RECURSIVE CommonRun(_, _, _, _)
\* the length of the longest k with a[i..i+k-1] = b[j..j+k-1]
CommonRun(a, b, i, j) ==
    IF i > Len(a) \/ j > Len(b) \/ a[i] # b[j] THEN 0
    ELSE 1 + CommonRun(a, b, i + 1, j + 1)

MaxOf(S) == CHOOSE n \in S : \A m \in S : m <= n

MinOf(S) == CHOOSE n \in S : \A m \in S : n <= m

\* every pair of positions with the length of the block that starts there
Blocks(a, b) == {<<i, j, CommonRun(a, b, i, j)>> : i \in 1..Len(a), j \in 1..Len(b)}

\* of the blocks of size k that start at i in a, the earliest in b
EarliestInB(blocks, k, i) ==
    <<i, MinOf({x[2] : x \in {y \in blocks : y[3] = k /\ y[1] = i}}), k>>

\* of the blocks of size k, the earliest in a
EarliestInA(blocks, k) ==
    EarliestInB(blocks, k, MinOf({x[1] : x \in {y \in blocks : y[3] = k}}))

LongestBlock(blocks) ==
    IF blocks = {} THEN <<1, 1, 0>> ELSE EarliestInA(blocks, MaxOf({x[3] : x \in blocks}))

\* SequenceMatcher.find_longest_match over the whole of a and b (no junk): the
\* longest common block, the earliest in a, then the earliest in b
find_longest_match(a, b) == LongestBlock(Blocks(a, b))

RECURSIVE MatchCount(_, _)
RECURSIVE MatchCountAround(_, _, _)
\* the size of the block m = <<i, j, k>> and of the blocks matched to its left
\* and to its right
MatchCountAround(a, b, m) ==
    IF m[3] = 0 THEN 0
    ELSE m[3] + MatchCount(SubSeq(a, 1, m[1] - 1), SubSeq(b, 1, m[2] - 1))
              + MatchCount(SubSeq(a, m[1] + m[3], Len(a)), SubSeq(b, m[2] + m[3], Len(b)))

\* the sum of the sizes of SequenceMatcher.get_matching_blocks()
MatchCount(a, b) == MatchCountAround(a, b, find_longest_match(a, b))

\* SequenceMatcher.ratio() as the fraction <<numerator, denominator>>
Ratio(a, b) ==
    IF Len(a) + Len(b) = 0 THEN <<1, 1>> ELSE <<2 * MatchCount(a, b), Len(a) + Len(b)>>

\* (ratio, x) > (ratio, y), the order of heapq.nlargest, for two scored
\* possibilities <<ratio, name>>
ScoredAbove(x, y) ==
    \/ x[1][1] * y[1][2] > y[1][1] * x[1][2]
    \/ x[1][1] * y[1][2] = y[1][1] * x[1][2] /\ StrLess(y[2], x[2])

\* the possibilities with their ratio to the word (cutoff 0 keeps them all)
Scored(word, possibilities) ==
    {<<Ratio(possibilities[i], word), possibilities[i]>> : i \in 1..Len(possibilities)}

Top(S) == CHOOSE x \in S : \A y \in S \ {x} : ScoredAbove(x, y)

RECURSIVE nlargest(_, _)
\* heapq.nlargest(n, result): the n best scored possibilities, best first
nlargest(n, S) ==
    IF n = 0 \/ S = {} THEN <<>> ELSE <<Top(S)>> \o nlargest(n - 1, S \ {Top(S)})

\* [x for score, x in result]
Unscored(scored) == [i \in 1..Len(scored) |-> scored[i][2]]

\* get_close_matches(word, possibilities, cutoff=0): the best three, best first
get_close_matches(word, possibilities) ==
    Unscored(nlargest(3, Scored(word, possibilities)))

\* vars(self).keys()
AttrNames(node) == [i \in 1..Len(node.v) |-> node.v[i][1]]

\* Config.__getattribute__: the value, or the error with its did-you-mean hint
ConfigGetattribute(node, name) ==
    LET found == ObjectGetattribute(node, name)
        attr == get_erroring_attr(found.text)
        matches == get_close_matches(attr, AttrNames(node))
    IN  IF ~IsRaise(found) THEN found
        ELSE IF ~Unpacks(found.text) THEN Raise("ValueError")
        ELSE IF matches = <<>> THEN [found EXCEPT !.warned = TRUE]
        ELSE IF matches[1] # <<>>
        THEN AttributeError(<<>>, attr, matches[1], FALSE)
        ELSE found

\* Config.get_var: getattr(self, attr_name)
get_var(node, attr_name) == ConfigGetattribute(node, attr_name)

\* Config.__contains__ that only tests presence
contains_Present(node, element) == HasKey(node.v, element)

\* Config.__contains__: vars(self).get(element) is not None
contains(node, element) ==
    IF HasKey(node.v, element) THEN Lookup(node.v, element) # Null ELSE FALSE

---------------------------------------------------------------------------
(* The path walk (utils.iterate_down_to) and index access on a node.       *)

IsIn(x, xs) == \E i \in 1..Len(xs) : xs[i] = x

RECURSIVE Concat(_)
Concat(seqs) == IF seqs = <<>> THEN <<>> ELSE Head(seqs) \o Concat(Tail(seqs))

\* what find_recursively appends for a field whose name is the last key
\* (var_to_key: Null, or Name(k) for the keyword argument)
AppendedItem(data, value, var_to_key) ==
    IF var_to_key.t # "null" /\ HasKey(data.v, var_to_key.v)
    THEN IF Lookup(data.v, var_to_key.v).t \in {"dict", "list"}
         THEN Raise("TypeError")
         ELSE [t |-> "dict", v |-> << <<Lookup(data.v, var_to_key.v), value>> >>,
               keyed |-> TRUE]
    ELSE value

RECURSIVE find_recursively(_, _, _)
\* the values find_recursively appends to data_found, in the order it appends them
find_recursively(data, args, var_to_key) ==
    IF data.t = "dict"
    THEN Concat([i \in 1..Len(data.v) |->
                    LET field == data.v[i][1]
                        value == data.v[i][2]
                    IN  IF IsIn(field, args)
                        THEN find_recursively(value, args, var_to_key)
                             \o (IF field = args[Len(args)]
                                 THEN <<AppendedItem(data, value, var_to_key)>>
                                 ELSE <<>>)
                        ELSE <<>>])
    ELSE IF data.t = "list"
    THEN Concat([i \in 1..Len(data.v) |-> find_recursively(data.v[i], args, var_to_key)])
    ELSE <<>>

\* iterate_down_to(data, *args, var_to_key=var_to_key)
iterate_down_to(data, args, var_to_key) ==
    LET data_found == find_recursively(data, args, var_to_key)
    IN  IF \E i \in 1..Len(data_found) : IsRaise(data_found[i]) THEN Raise("TypeError")
        ELSE IF Len(data_found) = 1 THEN data_found[1]
        ELSE IF data_found # <<>> THEN List(data_found)
        ELSE Null

\* the key of an index access: one name, or a Python list of names
Name(k) == [t |-> "name", v |-> k]

Path(keys) == [t |-> "path", v |-> keys]

\* Config.__getitem__
ConfigGetitem(node, key) ==
    IF key.t = "path" THEN iterate_down_to(Dict(node.v), key.v, Null)
    ELSE get_var(node, key.v)

---------------------------------------------------------------------------
(* The node machine: a caller creates a node, fills it from documents,     *)
(* sets attributes and queries it.                                         *)

\* a reference to the object heap[id]
ObjRef(id) == [t |-> "ref", v |-> id]

\* a call returns a node it has created, or raises
Returned(h, node) ==
    IF IsRaise(node) THEN [heap |-> h, ret |-> node]
    ELSE [heap |-> Append(h, node), ret |-> ObjRef(Len(h) + 1)]

\* Config.set_var that works on a copy of the node
Config_set_var_Copy(h, self, attr_name, attr_value) ==
    [heap |-> Append(h, set_var(h[self], attr_name, attr_value)),
     ret |-> ObjRef(Len(h) + 1)]

\* Config.set_var and Config.add_var on the object self: "setattr(...); return self"
Config_set_var(h, self, attr_name, attr_value) ==
    [heap |-> [h EXCEPT ![self] = set_var(h[self], attr_name, attr_value)],
     ret |-> ObjRef(self)]

\* Config.__setitem__: self.set_var(key, value), nothing is returned
Config_setitem(h, self, key, value) ==
    [heap |-> Config_set_var(h, self, key, value).heap, ret |-> Null]

NodeClasses == {"Config", "SearchConfig", "TableConfig"}

SetNames == {kName, kValueProperty, kItems, kEmpty}

SetValues == {Null, StrV}

QueryNames == {kName, kNam, kValueProperty, kValue, kItems, kItS, kTable}

NodeDocs ==
    {Dict(<< <<kTable, Dict(<< <<kName, StrV>> >>)>> >>),
     Dict(<< <<kSearch, Dict(<< <<kValueName, StrV>> >>)>>, <<kName, Null>> >>),
     Dict(<< <<kSearch, Dict(<< <<kValueName, StrV>> >>)>>,
             <<kSearches, List(<< Dict(<< <<kValueName, StrV>> >>), Dict(<<>>) >>)>> >>)}

QueryPaths == {<<kTable>>, <<kTable, kName>>, <<kSearch, kValueName>>, <<kName>>}

InitNode ==
    /\ config_registry = BaseRegistry
    /\ pc = "node"
    /\ cli_data = Null
    /\ cli_config = Null
    /\ config_obj = Null
    /\ rendered_config = Null
    /\ heap = <<>>
    /\ call = NoCall
    /\ result = Null
    /\ steps = 0
    /\ hooks = <<>>
    /\ data_cache = <<>>
    /\ loads = <<>>

\* cls()
NewConfig(cls) ==
    /\ heap = <<>>
    /\ heap' = <<New(cls)>>
    /\ call' = [op |-> "new", cls |-> cls]
    /\ result' = ObjRef(1)
    /\ UNCHANGED <<steps, loadVars, runVars>>

\* an instantiate that also enters the class of the node it filled into the
\* registry
Instantiate_Registering(self, doc) ==
    /\ steps < MaxSteps
    /\ LET filled == instantiate_configs_in_dict(config_registry, doc, heap[self])
       IN  /\ ~IsRaise(filled)
           /\ heap' = [heap EXCEPT ![self] = filled]
    /\ config_registry' = register_config(config_registry, heap[self].cls, FALSE)
    /\ call' = [op |-> "instantiate", self |-> self, doc |-> doc]
    /\ result' = ObjRef(self)
    /\ steps' = steps + 1
    /\ UNCHANGED <<pc, cli_data, cli_config, config_obj, rendered_config, runVars>>

\* instantiate_configs_in_dict(doc, node): the node is filled and returned
Instantiate(self, doc) ==
    /\ steps < MaxSteps
    /\ LET filled == instantiate_configs_in_dict(config_registry, doc, heap[self])
       IN  /\ ~IsRaise(filled)
           /\ heap' = [heap EXCEPT ![self] = filled]
    /\ call' = [op |-> "instantiate", self |-> self, doc |-> doc]
    /\ result' = ObjRef(self)
    /\ steps' = steps + 1
    /\ UNCHANGED <<loadVars, runVars>>

\* node.set_var(name, value), node.add_var(name, value), node[name] = value
SetVar(op, self, attr_name, attr_value) ==
    /\ steps < MaxSteps
    /\ LET done == IF op = "__setitem__"
                   THEN Config_setitem(heap, self, attr_name, attr_value)
                   ELSE Config_set_var(heap, self, attr_name, attr_value)
       IN  /\ heap' = done.heap
           /\ result' = done.ret
    /\ call' = [op |-> op, self |-> self, name |-> attr_name, value |-> attr_value,
                before |-> heap[self]]
    /\ steps' = steps + 1
    /\ UNCHANGED <<loadVars, runVars>>

\* node.get_var(name), the same lookup as node.name
GetVar(self, attr_name) ==
    /\ steps < MaxSteps
    /\ call' = [op |-> "get_var", self |-> self, name |-> attr_name]
    /\ result' = get_var(heap[self], attr_name)
    /\ steps' = steps + 1
    /\ UNCHANGED <<heap, loadVars, runVars>>

\* name in node
Contains(self, element) ==
    /\ steps < MaxSteps
    /\ call' = [op |-> "__contains__", self |-> self, name |-> element]
    /\ result' = Bool(contains(heap[self], element))
    /\ steps' = steps + 1
    /\ UNCHANGED <<heap, loadVars, runVars>>

\* node[key]
GetItem(self, key) ==
    /\ steps < MaxSteps
    /\ call' = [op |-> "__getitem__", self |-> self, key |-> key]
    /\ result' = ConfigGetitem(heap[self], key)
    /\ steps' = steps + 1
    /\ UNCHANGED <<heap, loadVars, runVars>>

\* convert_to_dict(node)
Snapshot(self) ==
    /\ steps < MaxSteps
    /\ call' = [op |-> "convert_to_dict", self |-> self]
    /\ result' = convert_to_dict(heap[self])
    /\ steps' = steps + 1
    /\ UNCHANGED <<heap, loadVars, runVars>>

\* render_config_args(node): the rendered tree is a new object; an attribute
\* named items shadows the method the overlay loop calls (TypeError)
RenderNode(self) ==
    /\ steps < MaxSteps
    /\ LET done == Returned(heap, IF HasKey(heap[self].v, kItems) THEN Raise("TypeError")
                                  ELSE render_config_args(config_registry, heap[self]))
       IN  heap' = done.heap /\ result' = done.ret
    /\ call' = [op |-> "render_config_args", self |-> self]
    /\ steps' = steps + 1
    /\ UNCHANGED <<loadVars, runVars>>

NextNode ==
    \/ Register("TableConfig", FALSE)
    \/ \E self \in DOMAIN heap : RenderNode(self)
    \/ \E cls \in NodeClasses : NewConfig(cls)
    \/ \E self \in DOMAIN heap, doc \in NodeDocs : Instantiate(self, doc)
    \/ \E op \in {"set_var", "add_var", "__setitem__"}, self \in DOMAIN heap,
          attr_name \in SetNames, attr_value \in SetValues :
          SetVar(op, self, attr_name, attr_value)
    \/ \E self \in DOMAIN heap, attr_name \in QueryNames : GetVar(self, attr_name)
    \/ \E self \in DOMAIN heap, element \in QueryNames : Contains(self, element)
    \/ \E self \in DOMAIN heap, key \in {Name(k) : k \in QueryNames} \cup
                                         {Path(ks) : ks \in QueryPaths} : GetItem(self, key)
    \/ \E self \in DOMAIN heap : Snapshot(self)

SpecNode == InitNode /\ [][NextNode]_vars

---------------------------------------------------------------------------
(* Claims about the snapshot and the node operations, under SpecNode.      *)

RECURSIVE SnapshotCovers(_, _)
\* snap is a mapping with no key that begins with "_" and with every other
\* attribute of node under its own name, and so on below every attribute that
\* is a node or a list of nodes
SnapshotCovers(node, snap) ==
    /\ snap.t = "dict"
    /\ \A i \in 1..Len(snap.v) : snap.v[i][1] = <<>> \/ snap.v[i][1][1] # "_"
    /\ \A i \in 1..Len(node.v) :
          LET key == node.v[i][1]
              val == node.v[i][2]
              sub == Lookup(snap.v, key)
          IN  (key = <<>> \/ key[1] # "_") =>
                  /\ HasKey(snap.v, key)
                  /\ val.t = "config" => SnapshotCovers(val, sub)
                  /\ val.t = "list" =>
                        /\ sub.t = "list" /\ Len(sub.v) = Len(val.v)
                        /\ \A j \in 1..Len(val.v) :
                              val.v[j].t = "config" => SnapshotCovers(val.v[j], sub.v[j])

\* C11: the snapshot convert_to_dict returns for a node holds, at every depth
\* reached through nodes and lists of nodes, no key that begins with "_" and
\* every other attribute of those nodes under its own name
C11_SnapshotKeys ==
    call.op = "convert_to_dict" => SnapshotCovers(heap[call.self], result)

\* a snapshot of a node that holds "_value" itself, in a child node and in the
\* nodes of a list
C11_Witness ==
    /\ call.op = "convert_to_dict"
    /\ HasKey(heap[call.self].v, kValue)
    /\ HasKey(heap[call.self].v, kSearch)
    /\ HasKey(Lookup(heap[call.self].v, kSearch).v, kValue)
    /\ HasKey(Lookup(result.v, kSearch).v, kValueName)
    /\ HasKey(heap[call.self].v, kSearches)
    /\ Len(Lookup(heap[call.self].v, kSearches).v) = 2
    /\ HasKey(Lookup(heap[call.self].v, kSearches).v[1].v, kValue)

\* the node a call was applied to, as it is after the call
Self == heap[call.self]

IsAttributeError(x) == x.t = "raise" /\ x.v = "AttributeError"

\* C12: on a node with at least one attribute, get_var of a name that is not an
\* attribute raises an AttributeError whose message names the requested name
\* and suggests one of the node's attributes
C12_MissingRaises ==
    (call.op = "get_var" /\ Self.v # <<>> /\ ~HasKey(Self.v, call.name)) =>
        /\ IsAttributeError(result)
        /\ result.attr = call.name
        /\ IsIn(result.closest_match, AttrNames(Self))

\* C13: on a node without attributes get_var warns and raises the original
\* error, without a suggestion; on a node with attributes it never warns
C13_EmptyNodeWarns ==
    call.op = "get_var" =>
        /\ Self.v = <<>> =>
              /\ IsAttributeError(result)
              /\ result.warned
              /\ result.text = NoAttributeMessage(Self.cls, call.name)
        /\ Self.v # <<>> => ~(IsAttributeError(result) /\ result.warned)

\* the attributes of before other than name keep their values in after
OthersKept(before, after, names) ==
    \A i \in 1..Len(before.v) :
        ~(before.v[i][1] \in names) =>
            /\ HasKey(after.v, before.v[i][1])
            /\ Lookup(after.v, before.v[i][1]) = before.v[i][2]

IsSet == call.op \in {"set_var", "add_var", "__setitem__"}

\* C14 as stated: after a set, get_var(name) returns the value, every other
\* attribute keeps its value, and set_var and add_var return the node itself
C14_SetOverwritesAny ==
    IsSet =>
        /\ get_var(Self, call.name) = call.value
        /\ OthersKept(call.before, Self, {call.name})
        /\ call.op # "__setitem__" => result = ObjRef(call.self)

\* the name goes through a property of the node's class
ThroughProperty == Self.cls = "SearchConfig" /\ call.name = kValueProperty

\* C14, amended: as stated for every name that is not a property of the node's
\* class; setting the property value of a SearchConfig stores the value in
\* _value and sets is_resolved, and leaves every other attribute as it was
C14_SetOverwrites ==
    IsSet =>
        /\ get_var(Self, call.name) = call.value
        /\ call.op # "__setitem__" => result = ObjRef(call.self)
        /\ ~ThroughProperty =>
              /\ OthersKept(call.before, Self, {call.name})
              /\ HasKey(Self.v, call.name)
        /\ ThroughProperty =>
              /\ OthersKept(call.before, Self, {kValue, kIsResolved})
              /\ Lookup(Self.v, kValue) = call.value
              /\ Lookup(Self.v, kIsResolved) = Bool(TRUE)
              /\ ~HasKey(Self.v, kValueProperty)

\* a second set on the node the first set returned: the name is overwritten and
\* the attribute set before is still there
C14_Witness ==
    /\ call.op = "set_var"
    /\ steps = 2
    /\ call.name = kName /\ call.value = StrV
    /\ HasKey(call.before.v, kName) /\ Lookup(call.before.v, kName) = Null
    /\ HasKey(call.before.v, kItems)
    /\ result = ObjRef(call.self)

\* C15: after any instantiate and set operations, "name in node" is true
\* exactly when name is an attribute of the node whose value is not null
C15_Contains ==
    call.op = "__contains__" =>
        (result = Bool(TRUE) <=>
            \E i \in 1..Len(Self.v) : Self.v[i][1] = call.name /\ Self.v[i][2].t # "null")

\* a typed node filled from a document that does not supply its declared
\* attribute name: the attribute is there, null, and not contained
C15_Witness ==
    /\ call.op = "__contains__"
    /\ Self.cls = "TableConfig"
    /\ steps = 2
    /\ HasKey(Self.v, kTable)
    /\ call.name = kName
    /\ HasKey(Self.v, kName) /\ Lookup(Self.v, kName) = Null
    /\ result = Bool(FALSE)

\* a result of index access on the node corresponds to a result of the walk on
\* the source: the same value, or the node built from the same mapping
Corresponds(r, w) == r = w \/ (r.t = "config" /\ convert_to_dict(r) = w)

\* C16: on a node built by instantiate from a nested mapping, node[[k1, ..., kn]]
\* returns what iterate_down_to returns on the source mapping for k1, ..., kn
C16_IndexPath ==
    (call.op = "__getitem__" /\ call.key.t = "path") =>
        \A doc \in NodeDocs :
            Self = instantiate_configs_in_dict(config_registry, doc, New("Config")) =>
                Corresponds(result, iterate_down_to(doc, call.key.v, Null))

---------------------------------------------------------------------------
(* The walk machine: a caller holds a document and searches it.            *)

WalkKeys == {kTable, kName, kCount}

WalkLeaves == {StrV, Num(1), List(<<>>)}

\* mappings of one key over a leaf
WalkDicts1 == {Dict(<< <<k, v>> >>) : k \in WalkKeys, v \in WalkLeaves}

WalkElems == {Dict(<< <<kName, StrV>> >>), Dict(<< <<kName, Num(1)>> >>),
              Dict(<< <<kCount, StrV>> >>)}

WalkLists == {List(xs) : xs \in SeqsUpTo(WalkElems, MaxListLen)}

WalkValues2 == WalkLeaves \cup WalkDicts1 \cup WalkLists

WalkDicts2 == {Dict(<< <<k, v>> >>) : k \in WalkKeys, v \in WalkValues2}

\* documents: one key over a value of depth up to two, or two keys over values
\* of depth up to one
WalkDocs ==
    {Dict(<< <<k, v>> >>) : k \in WalkKeys, v \in WalkValues2 \cup WalkDicts2} \cup
    {Dict(<< <<p[1], p[3]>>, <<p[2], p[4]>> >>) :
        p \in {q \in WalkKeys \X WalkKeys \X WalkValues2 \X WalkValues2 : q[1] # q[2]}}

WalkArgs == SeqsUpTo(WalkKeys, MaxKeys) \ {<<>>}

InitWalk ==
    /\ config_registry = BaseRegistry
    /\ pc = "walk"
    /\ cli_data = Null
    /\ cli_config = Null
    /\ config_obj = Null
    /\ rendered_config = Null
    /\ heap = <<>>
    /\ call = NoCall
    /\ result = Null
    /\ steps = 0
    /\ hooks = <<>>
    /\ data_cache = <<>>
    /\ loads = <<>>

\* a document is loaded (load_yaml)
LoadData(doc) ==
    /\ heap = <<>>
    /\ heap' = <<doc>>
    /\ call' = [op |-> "load_yaml"]
    /\ result' = ObjRef(1)
    /\ UNCHANGED <<steps, loadVars, runVars>>

\* iterate_down_to(data, *args)
IterateDownTo(data, args) ==
    /\ call' = [op |-> "iterate_down_to", self |-> data, args |-> args]
    /\ result' = iterate_down_to(heap[data], args, Null)
    /\ UNCHANGED <<heap, steps, loadVars, runVars>>

NextWalk ==
    \/ \E doc \in WalkDocs : LoadData(doc)
    \/ \E data \in DOMAIN heap, args \in WalkArgs : IterateDownTo(data, args)

SpecWalk == InitWalk /\ [][NextWalk]_vars

---------------------------------------------------------------------------
(* Claims about the path walk, under SpecWalk.                             *)

IsWalk == call.op = "iterate_down_to"

\* the keys before the last one, and the last one
PrefixKeys(args) == SubSeq(args, 1, Len(args) - 1)

TerminalKey(args) == args[Len(args)]

RECURSIVE MatchedInDocumentOrder(_, _)
\* the values of the occurrences of the terminal key that the walk reaches, in
\* the order in which the keys stand in the document
MatchedInDocumentOrder(data, args) ==
    IF data.t = "dict"
    THEN Concat([i \in 1..Len(data.v) |->
                    IF IsIn(data.v[i][1], args)
                    THEN (IF data.v[i][1] = TerminalKey(args)
                          THEN <<data.v[i][2]>> ELSE <<>>)
                         \o MatchedInDocumentOrder(data.v[i][2], args)
                    ELSE <<>>])
    ELSE IF data.t = "list"
    THEN Concat([i \in 1..Len(data.v) |-> MatchedInDocumentOrder(data.v[i], args)])
    ELSE <<>>

\* C17: iterate_down_to returns the matched value when one occurrence matches,
\* the list of the matched values in document order when two or more match,
\* and None when none matches
C17_ReturnConvention ==
    IsWalk =>
        LET matched == MatchedInDocumentOrder(heap[call.self], call.args)
        IN  /\ Len(matched) = 1 => result = matched[1]
            /\ Len(matched) >= 2 => result = List(matched)
            /\ Len(matched) = 0 => result = Null

RECURSIVE Beneath(_, _, _)
\* the values of the occurrences of key t that lie anywhere beneath a path on
\* which the keys of prefix have been matched in their order
Beneath(data, prefix, t) ==
    IF data.t = "dict"
    THEN UNION {LET field == data.v[i][1]
                    value == data.v[i][2]
                IN  (IF prefix = <<>> /\ field = t THEN {value} ELSE {})
                    \cup Beneath(value, prefix, t)
                    \cup (IF prefix # <<>> /\ field = prefix[1]
                          THEN Beneath(value, Tail(prefix), t) ELSE {})
                : i \in 1..Len(data.v)}
    ELSE IF data.t = "list"
    THEN UNION {Beneath(data.v[i], prefix, t) : i \in 1..Len(data.v)}
    ELSE {}

\* what iterate_down_to returned, as the list of the values it found
Found == IF result = Null THEN <<>>
         ELSE IF Len(find_recursively(heap[call.self], call.args, Null)) = 1
         THEN <<result>>
         ELSE result.v

\* C18: iterate_down_to finds every occurrence of the terminal key that lies
\* beneath a path on which the prefix keys have been matched, whatever other
\* keys or sequences lie in between
C18_FindsEveryOccurrence ==
    IsWalk =>
        \A value \in Beneath(heap[call.self], PrefixKeys(call.args), TerminalKey(call.args)) :
            IsIn(value, Found)

RECURSIVE KeysOf(_)
\* every key that occurs in data, at any depth
KeysOf(data) ==
    IF data.t = "dict"
    THEN UNION {{data.v[i][1]} \cup KeysOf(data.v[i][2]) : i \in 1..Len(data.v)}
    ELSE IF data.t = "list"
    THEN UNION {KeysOf(data.v[i]) : i \in 1..Len(data.v)}
    ELSE {}

\* C19: iterate_down_to returns None whenever one of the given keys does not
\* exist in data
C19_MissingKeyGivesNone ==
    IsWalk =>
        ((\E i \in 1..Len(call.args) : ~(call.args[i] \in KeysOf(heap[call.self])))
            => result = Null)

---------------------------------------------------------------------------
(* The naming machine: the naming helpers applied to identifiers.          *)

NameChars == {"c", "s", "C", "S"}

Identifiers == SeqsUpTo(NameChars, MaxNameLen) \ {<<>>}

InitNames ==
    /\ config_registry = BaseRegistry
    /\ pc = "names"
    /\ cli_data = Null
    /\ cli_config = Null
    /\ config_obj = Null
    /\ rendered_config = Null
    /\ heap = <<>>
    /\ call = NoCall
    /\ result = Null
    /\ steps = 0
    /\ hooks = <<>>
    /\ data_cache = <<>>
    /\ loads = <<>>

\* change_to_snake_case(s), one call of the pure function in a behaviour
ChangeToSnakeCase(s) ==
    /\ call = NoCall
    /\ call' = [op |-> "change_to_snake_case", s |-> s]
    /\ result' = [t |-> "name", v |-> change_to_snake_case(s)]
    /\ UNCHANGED <<heap, steps, loadVars, runVars>>

\* the letters of the plural endings "s", "ies" and "ches"
KeyChars == {"c", "h", "i", "e", "s"}

PluralKeys == SeqsUpTo(KeyChars, MaxNameLen) \ {<<>>}

\* is_plural(string)
IsPlural(string) ==
    /\ call = NoCall
    /\ call' = [op |-> "is_plural", s |-> string]
    /\ result' = Bool(is_plural(string))
    /\ UNCHANGED <<heap, steps, loadVars, runVars>>

\* make_singular(string)
MakeSingular(string) ==
    /\ call = NoCall
    /\ call' = [op |-> "make_singular", s |-> string]
    /\ result' = [t |-> "name", v |-> make_singular(string)]
    /\ UNCHANGED <<heap, steps, loadVars, runVars>>

NextNames ==
    \/ \E s \in Identifiers : ChangeToSnakeCase(s)
    \/ \E s \in PluralKeys : IsPlural(s)
    \/ \E s \in PluralKeys : MakeSingular(s)

SpecNames == InitNames /\ [][NextNames]_vars

\* s lower-cased, with an underscore before each uppercase letter that follows
\* a lowercase letter and nowhere else
RunsAsUnits(s) ==
    Concat([i \in 1..Len(s) |->
               IF i > 1 /\ IsUpperChar(s[i]) /\ IsLowerChar(s[i - 1])
               THEN <<"_", LowerChar(s[i])>>
               ELSE <<LowerChar(s[i])>>])

\* C20: change_to_snake_case gives a lowercase string in which an underscore is
\* inserted only before an uppercase letter that follows a lowercase letter, a
\* run of uppercase letters being lower-cased as one unit
C20_SnakeCase ==
    call.op = "change_to_snake_case" =>
        /\ \A i \in 1..Len(result.v) : ~IsUpperChar(result.v[i])
        /\ result.v = RunsAsUnits(call.s)

\* s ends with the characters of tail
EndsWith(s, tail) ==
    Len(s) >= Len(tail) /\ SubSeq(s, Len(s) - Len(tail) + 1, Len(s)) = tail

C22_LastRegistrationWins ==
    call.op = "register_config" =>
        LET name == IF call.root THEN kRoot ELSE get_name(call.cls)
        IN  /\ DOMAIN config_registry = DOMAIN call.before \cup {name}
            /\ config_registry[name] = call.cls
            /\ \A n \in DOMAIN call.before \ {name} : config_registry[n] = call.before[n]

\* a root registration that replaces the root entry another class held, the
\* class being registered under its own name as well
C22_Witness ==
    /\ pc = "load"
    /\ call.op = "register_config" /\ call.root
    /\ call.before[kRoot] = "NestedObjInListConfig"
    /\ config_registry[kRoot] = "TableConfig"
    /\ get_name("TableConfig") \in DOMAIN config_registry
    /\ config_registry[get_name("TableConfig")] = "TableConfig"
    /\ get_name("NestedObjInListConfig") \notin DOMAIN config_registry

\* C23: a step of instantiate, render, get, set, contains or the path walk
\* leaves the registry as it is: only a registration changes an entry
C23_RegistryReadOnly ==
    [][config_registry' # config_registry => call'.op = "register_config"]_vars

\* a registered class has been used by instantiate and the node rendered
C23_Witness ==
    /\ get_name("TableConfig") \in DOMAIN config_registry
    /\ call.op = "render_config_args"
    /\ Len(heap) = 2
    /\ HasKey(heap[1].v, kTable) /\ Lookup(heap[1].v, kTable).cls = "TableConfig"

\* C25 (as claimed): under a plural key the first element of a sequence
\* decides: when it is map-like the attribute is a list with one node per
\* element, in order, an element that is not map-like giving an empty node of
\* the same type; when it is not map-like the raw list is attached unchanged
C25_FirstElementDecides ==
    \A p \in BuiltPairs :
        p.src.t = "list" /\ is_plural(p.key) /\ p.src.v # <<>> =>
            IF p.src.v[1].t = "dict"
            THEN /\ p.res.t = "list"
                 /\ Len(p.res.v) = Len(p.src.v)
                 /\ \A i \in 1..Len(p.res.v) :
                        /\ p.res.v[i].t = "config"
                        /\ p.res.v[i].cls = p.res.v[1].cls
                        /\ p.src.v[i].t # "dict" => p.res.v[i] = New(p.res.v[1].cls)
            ELSE p.res = p.src

---------------------------------------------------------------------------
(* The extension lifecycle (extension.py, Extension.run_extension).  An    *)
(* extension is described by the hooks its class overrides; a hook that a  *)
(* class overrides is the application's code and may raise.                *)

\* the classes of extensions: which of ready, start and main are overridden,
\* and whether the object wraps a function (then its type is Extension itself)
Extensions ==
    {[ready |-> r, start |-> s, main |-> m, is_function |-> FALSE] :
        r \in BOOLEAN, s \in BOOLEAN, m \in BOOLEAN}
    \cup {[ready |-> FALSE, start |-> FALSE, main |-> FALSE, is_function |-> TRUE]}

\* a dispatch that calls start whatever the class overrides
AfterReady_AlwaysStart(ext) == IF ext.main THEN "start_then_main" ELSE "start_only"

\* the branches of run_extension after ready()
AfterReady(ext) ==
    IF ~ext.start THEN "main"
    ELSE IF ext.main THEN "start_then_main"
    ELSE "start_only"

\* whether a hook is the application's code: an overridden hook, or main of a
\* function extension, which calls the wrapped function
IsAppCode(ext, hook) ==
    CASE hook = "ready" -> ext.ready
      [] hook = "start" -> ext.start
      [] hook = "main" -> ext.main \/ ext.is_function

InitExt ==
    /\ config_registry = BaseRegistry
    /\ pc = "ext"
    /\ cli_data = Null
    /\ cli_config = Null
    /\ config_obj = Null
    /\ rendered_config = Null
    /\ heap = <<>>
    /\ call = NoCall
    /\ result = Null
    /\ steps = 0
    /\ hooks = <<>>
    /\ data_cache = <<>>
    /\ loads = <<>>

\* the positional arguments given to run_extension, which it hands to main
ExtensionArgs == SeqsUpTo({StrV}, MaxListLen)

\* extension.run_extension(*args) is called
RunExtension(ext, args) ==
    /\ pc \in {"ext", "returned", "raised"}
    /\ steps < MaxSteps
    /\ call' = [op |-> "run_extension", ext |-> ext, args |-> args]
    /\ hooks' = <<>>
    /\ result' = Null
    /\ pc' = "ready"
    /\ steps' = steps + 1
    /\ UNCHANGED <<config_registry, cli_data, cli_config, config_obj, rendered_config,
                   heap, data_cache, loads>>

\* self.ready()
Ready(returns) ==
    /\ pc = "ready"
    /\ returns \/ IsAppCode(call.ext, "ready")
    /\ hooks' = Append(hooks, "ready")
    /\ pc' = IF returns THEN AfterReady(call.ext) ELSE "raised"
    /\ result' = IF returns THEN Null ELSE Raise("Exception")
    /\ UNCHANGED <<config_registry, cli_data, cli_config, config_obj, rendered_config,
                   heap, call, steps, data_cache, loads>>

\* self.start(), in the elif and in the else branch
Start(returns) ==
    /\ pc \in {"start_then_main", "start_only"}
    /\ returns \/ IsAppCode(call.ext, "start")
    /\ hooks' = Append(hooks, "start")
    /\ pc' = IF ~returns THEN "raised"
             ELSE IF pc = "start_then_main" THEN "main" ELSE "returned"
    /\ result' = IF returns THEN Null ELSE Raise("Exception")
    /\ UNCHANGED <<config_registry, cli_data, cli_config, config_obj, rendered_config,
                   heap, call, steps, data_cache, loads>>

\* self.main(*args, **kwargs): Extension.main runs the wrapped function, and
\* raises NotImplementedError when there is none
Main(returns) ==
    /\ pc = "main"
    /\ IF IsAppCode(call.ext, "main") THEN TRUE ELSE ~returns
    /\ hooks' = Append(hooks, "main")
    /\ pc' = IF returns THEN "returned" ELSE "raised"
    /\ result' = IF returns THEN Null
                 ELSE IF IsAppCode(call.ext, "main") THEN Raise("Exception")
                 ELSE Raise("NotImplementedError")
    /\ UNCHANGED <<config_registry, cli_data, cli_config, config_obj, rendered_config,
                   heap, call, steps, data_cache, loads>>

NextExt ==
    \/ \E ext \in Extensions, args \in ExtensionArgs : RunExtension(ext, args)
    \/ \E returns \in BOOLEAN : Ready(returns)
    \/ \E returns \in BOOLEAN : Start(returns)
    \/ \E returns \in BOOLEAN : Main(returns)

SpecExt == InitExt /\ [][NextExt]_vars

\* the hooks of a run in which every hook returns
HookOrder(ext) ==
    <<"ready">> \o (IF ~ext.start THEN <<"main">>
                    ELSE IF ext.main THEN <<"start", "main">>
                    ELSE <<"start">>)

\* C26: in each run ready() is called first and once; then only main when
\* start is not overridden, start and then main when both are overridden,
\* only start when start alone is overridden; no hook is called twice.  A run
\* that a hook ends by raising has called the hooks up to that one.
C26_HookOrder ==
    call.op = "run_extension" =>
        /\ Len(hooks) <= Len(HookOrder(call.ext))
        /\ hooks = SubSeq(HookOrder(call.ext), 1, Len(hooks))
        /\ pc # "ready" => hooks # <<>>
        /\ pc = "returned" => hooks = HookOrder(call.ext)
        /\ \A i, j \in 1..Len(hooks) : hooks[i] = hooks[j] => i = j

\* a second run, of an extension that overrides start and main, has returned
C26_Witness ==
    /\ call.op = "run_extension"
    /\ steps = 2
    /\ call.ext.start /\ call.ext.main
    /\ pc = "returned"
    /\ hooks = <<"ready", "start", "main">>

---------------------------------------------------------------------------
(* The search resolver (config_registrar.py, class SearchResolver).  What  *)
(* a data loader does with a file is the environment's: each invocation    *)
(* returns data or raises FileNotFoundError.                               *)

kLoadYamlWithoutAnchors ==
    <<"l","o","a","d","_","y","a","m","l","_","w","i","t","h","o","u","t","_",
      "a","n","c","h","o","r","s">>
kFirstOccurrence == <<"f","i","r","s","t","_","o","c","c","u","r","r","e","n","c","e">>
kAsIs == <<"a","s","_","i","s">>
kNoSuch == <<"n","o","_","s","u","c","h">>
kFileA == <<"a">>
kFileB == <<"b">>
kTableName == <<"t","a","b","l","e","/","n","a","m","e">>

\* get_base_data_loaders
DataLoaders == {kLoadYamlWithoutAnchors}

\* get_base_extraction_methods
ExtractionMethods == {kFirstOccurrence, kAsIs}

\* the characters of a str value without template expressions
Text(x) == [i \in 1..Len(x.v) |-> x.v[i][2]]

RECURSIVE Split(_, _)
\* str.split(sep) of a string of characters
Split(s, sep) ==
    IF \A i \in 1..Len(s) : s[i] # sep THEN <<s>>
    ELSE LET i == CHOOSE k \in 1..Len(s) : s[k] = sep /\ \A j \in 1..(k - 1) : s[j] # sep
         IN  <<SubSeq(s, 1, i - 1)>> \o Split(SubSeq(s, i + 1, Len(s)), sep)

\* bool(x)
Truthy(x) ==
    \/ x.t = "config"
    \/ x.t \in {"list", "dict", "str"} /\ x.v # <<>>
    \/ x.t = "num" /\ x.v # 0
    \/ x.t = "bool" /\ x.v

first_occurrence(data) ==
    IF data.t = "list"
    THEN IF data.v = <<>> THEN Raise("IndexError") ELSE data.v[1]
    ELSE data

as_is(data) == IF Truthy(data) THEN data ELSE Null

\* self.extraction_methods[method](value)
Extracted(method, value) ==
    IF method = kFirstOccurrence THEN first_occurrence(value) ELSE as_is(value)

\* the state of a resolver: its cache, and for each file the loader was
\* invoked on, whether each invocation returned data, in order
Resolver(cache, invoked) == [data_cache |-> cache, loads |-> invoked]

\* the invocations so far with one more on source_file
Invoked(rs, source_file, returned) ==
    [f \in DOMAIN rs.loads \cup {source_file} |->
        IF f = source_file
        THEN (IF f \in DOMAIN rs.loads THEN rs.loads[f] ELSE <<>>) \o <<returned>>
        ELSE rs.loads[f]]

\* the loader raised FileNotFoundError: nothing is stored
Missed(rs, source_file) == Resolver(rs.data_cache, Invoked(rs, source_file, FALSE))

\* self.data_cache[source_file] = data, after the loader returned data
Cached(rs, source_file, data) ==
    Resolver([f \in DOMAIN rs.data_cache \cup {source_file} |->
                 IF f = source_file THEN data ELSE rs.data_cache[f]],
             Invoked(rs, source_file, TRUE))

\* load_data_to_search without the test of the cache
load_data_to_search_Uncached(rs, search_config, outcome) ==
    LET source_file == Text(Lookup(search_config.v, kSourceFile))
        data_loader == Text(Lookup(search_config.v, kDataLoader))
    IN  IF data_loader \notin DataLoaders THEN [rs |-> rs, ret |-> Raise("SystemExit")]
        ELSE IF IsRaise(outcome) THEN [rs |-> Missed(rs, source_file), ret |-> Null]
        ELSE [rs |-> Cached(rs, source_file, outcome), ret |-> outcome]

\* SearchResolver.load_data_to_search: outcome is what the loader does if invoked
load_data_to_search(rs, search_config, outcome) ==
    LET source_file == Text(Lookup(search_config.v, kSourceFile))
        data_loader == Text(Lookup(search_config.v, kDataLoader))
    IN  IF source_file \in DOMAIN rs.data_cache
        THEN [rs |-> rs, ret |-> rs.data_cache[source_file]]
        ELSE IF data_loader \notin DataLoaders THEN [rs |-> rs, ret |-> Raise("SystemExit")]
        ELSE IF IsRaise(outcome) THEN [rs |-> Missed(rs, source_file), ret |-> Null]
        ELSE [rs |-> Cached(rs, source_file, outcome), ret |-> outcome]

\* the lines of resolve_value after the data is there
ExtractInto(search_config, source_data) ==
    LET method == Text(Lookup(search_config.v, kMethod))
        path == Split(Text(Lookup(search_config.v, kVariablePath)), "/")
        value == Extracted(method, iterate_down_to(source_data, path, Null))
    IN  IF method \notin ExtractionMethods
        THEN [node |-> search_config, ret |-> Raise("SystemExit")]
        ELSE IF IsRaise(value) THEN [node |-> search_config, ret |-> value]
        ELSE [node |-> Setattr(search_config, kValueProperty, value), ret |-> Null]

\* resolve_value, given what load_data_to_search did
Resolved(search_config, loaded) ==
    IF IsRaise(loaded.ret)
    THEN [rs |-> loaded.rs, node |-> search_config, ret |-> loaded.ret]
    ELSE [rs |-> loaded.rs,
          node |-> ExtractInto(search_config, loaded.ret).node,
          ret |-> ExtractInto(search_config, loaded.ret).ret]

\* SearchResolver.resolve_value: the resolver, the search config and an
\* exception if one leaves the call
resolve_value(rs, search_config, outcome) ==
    Resolved(search_config, load_data_to_search(rs, search_config, outcome))

RECURSIVE resolve_values(_, _, _, _)
RECURSIVE ResolvedNext(_, _, _, _)
\* SearchResolver.resolve_values over the search configs h[i], h[i+1], ...
resolve_values(rs, h, i, outcomes) ==
    IF i > Len(h) THEN [rs |-> rs, heap |-> h, ret |-> Null]
    ELSE ResolvedNext(resolve_value(rs, h[i], outcomes[i]), h, i, outcomes)

\* the rest of the loop after one resolve_value
ResolvedNext(done, h, i, outcomes) ==
    IF IsRaise(done.ret) THEN [rs |-> done.rs, heap |-> h, ret |-> done.ret]
    ELSE resolve_values(done.rs, [h EXCEPT ![i] = done.node], i + 1, outcomes)

\* a SearchConfig with its fields set
SearchOf(source_file, data_loader, variable_path, method) ==
    set_var(set_var(set_var(set_var(New("SearchConfig"),
        kSourceFile, Chars(source_file)), kDataLoader, Chars(data_loader)),
        kVariablePath, Chars(variable_path)), kMethod, Chars(method))

\* the lists of search configs given to a resolver: one file searched twice,
\* two files, an unknown data loader, an unknown extraction method
SearchLists ==
    {<<SearchOf(kFileA, kLoadYamlWithoutAnchors, kName, kFirstOccurrence),
       SearchOf(kFileA, kLoadYamlWithoutAnchors, kTableName, kAsIs)>>,
     <<SearchOf(kFileA, kLoadYamlWithoutAnchors, kName, kAsIs),
       SearchOf(kFileB, kLoadYamlWithoutAnchors, kName, kFirstOccurrence)>>,
     <<SearchOf(kFileA, kNoSuch, kName, kFirstOccurrence)>>,
     <<SearchOf(kFileA, kLoadYamlWithoutAnchors, kName, kNoSuch),
       SearchOf(kFileB, kLoadYamlWithoutAnchors, kName, kFirstOccurrence)>>}

FileNotFound == Raise("FileNotFoundError")

\* what a data loader does when it is invoked
LoaderOutcomes ==
    {FileNotFound,
     Dict(<< <<kName, StrV>> >>),
     Dict(<< <<kTable, Dict(<< <<kName, StrV>> >>)>>, <<kName, Null>> >>)}

InitResolver ==
    /\ config_registry = BaseRegistry
    /\ pc = "resolver"
    /\ cli_data = Null
    /\ cli_config = Null
    /\ config_obj = Null
    /\ rendered_config = Null
    /\ heap = <<>>
    /\ call = NoCall
    /\ result = Null
    /\ steps = 0
    /\ hooks = <<>>
    /\ data_cache = <<>>
    /\ loads = <<>>

\* SearchResolver() and the search configs it is to resolve
NewSearches(search_config_list) ==
    /\ heap = <<>>
    /\ heap' = search_config_list
    /\ call' = [op |-> "new"]
    /\ UNCHANGED <<result, steps, loadVars, runVars>>

\* resolver.load_data_to_search(search_config)
LoadDataToSearch(self, outcome) ==
    /\ steps < MaxSteps
    /\ LET done == load_data_to_search(Resolver(data_cache, loads), heap[self], outcome)
       IN  /\ data_cache' = done.rs.data_cache
           /\ loads' = done.rs.loads
           /\ result' = done.ret
    /\ call' = [op |-> "load_data_to_search", self |-> self, outcome |-> outcome,
                cache |-> data_cache, before |-> heap]
    /\ steps' = steps + 1
    /\ UNCHANGED <<heap, hooks, loadVars>>

\* resolver.resolve_value(search_config)
ResolveValue(self, outcome) ==
    /\ steps < MaxSteps
    /\ LET done == resolve_value(Resolver(data_cache, loads), heap[self], outcome)
       IN  /\ data_cache' = done.rs.data_cache
           /\ loads' = done.rs.loads
           /\ heap' = [heap EXCEPT ![self] = done.node]
           /\ result' = IF IsRaise(done.ret) THEN done.ret ELSE ObjRef(self)
    /\ call' = [op |-> "resolve_value", self |-> self, outcome |-> outcome,
                cache |-> data_cache, before |-> heap]
    /\ steps' = steps + 1
    /\ UNCHANGED <<hooks, loadVars>>

\* resolver.resolve_values(search_config_list): outcomes[i] is what the loader
\* does if the i-th search invokes it
ResolveValues(outcomes) ==
    /\ steps < MaxSteps
    /\ heap # <<>>
    /\ LET done == resolve_values(Resolver(data_cache, loads), heap, 1, outcomes)
       IN  /\ data_cache' = done.rs.data_cache
           /\ loads' = done.rs.loads
           /\ heap' = done.heap
           /\ result' = done.ret
    /\ call' = [op |-> "resolve_values", outcomes |-> outcomes,
                cache |-> data_cache, before |-> heap]
    /\ steps' = steps + 1
    /\ UNCHANGED <<hooks, loadVars>>

NextResolver ==
    \/ \E search_config_list \in SearchLists : NewSearches(search_config_list)
    \/ \E self \in DOMAIN heap, outcome \in LoaderOutcomes : LoadDataToSearch(self, outcome)
    \/ \E self \in DOMAIN heap, outcome \in LoaderOutcomes : ResolveValue(self, outcome)
    \/ \E outcomes \in [DOMAIN heap -> LoaderOutcomes] : ResolveValues(outcomes)

SpecResolver == InitResolver /\ [][NextResolver]_vars

\* the source_file of a search config
FileOf(search_config) == Text(Lookup(search_config.v, kSourceFile))

\* the loader is reached and raises FileNotFoundError in this call on the node
MissesFile(node, cache, outcome) ==
    /\ outcome = FileNotFound
    /\ FileOf(node) \notin DOMAIN cache
    /\ Text(Lookup(node.v, kDataLoader)) \in DataLoaders

\* C27: when the data loader raises FileNotFoundError, resolve_value leaves the
\* search config unresolved (is_resolved false, value unset) and stores
\* nothing in the cache, and resolve_values goes on to the next search config
C27_MissingFileSkipped ==
    /\ call.op = "resolve_value" /\ MissesFile(call.before[call.self], call.cache, call.outcome)
        => /\ Lookup(heap[call.self].v, kIsResolved) = Bool(FALSE)
           /\ Lookup(heap[call.self].v, kValue) = Null
           /\ data_cache = call.cache
    /\ call.op = "resolve_values" /\ Len(call.before) = 2
          /\ MissesFile(call.before[1], call.cache, call.outcomes[1])
        => /\ Lookup(heap[1].v, kIsResolved) = Bool(FALSE)
           /\ FileOf(call.before[1]) \notin DOMAIN data_cache
           /\ ~IsRaise(call.outcomes[2]) => Lookup(heap[2].v, kIsResolved) = Bool(TRUE)

\* C28: a loader is never invoked on a file after an invocation on that file
\* returned data; the data returned is in the cache under the file, a call
\* for a cached file returns the cached data, and no call removes or
\* replaces a cache entry
C28_LoadedOnce ==
    /\ \A f \in DOMAIN loads : \A i \in 1..Len(loads[f]) : loads[f][i] => i = Len(loads[f])
    /\ DOMAIN data_cache = {f \in DOMAIN loads : \E i \in 1..Len(loads[f]) : loads[f][i]}
    /\ call.op \in {"load_data_to_search", "resolve_value", "resolve_values"}
        => \A f \in DOMAIN call.cache : f \in DOMAIN data_cache /\ data_cache[f] = call.cache[f]
    /\ call.op = "load_data_to_search" /\ FileOf(heap[call.self]) \in DOMAIN call.cache
        => result = call.cache[FileOf(heap[call.self])]

\* a second load of a cached file, whose loader would now return other data
C28_Witness ==
    /\ call.op = "load_data_to_search"
    /\ FileOf(heap[call.self]) \in DOMAIN call.cache
    /\ ~IsRaise(call.outcome)
    /\ call.outcome # call.cache[FileOf(heap[call.self])]
    /\ result = data_cache[FileOf(heap[call.self])]
    /\ loads[FileOf(heap[call.self])] = <<TRUE>>

---------------------------------------------------------------------------
(* The object graph: every node is an object heap[id], and an attribute    *)
(* that holds a node holds a reference ObjRef(id) to it, so that "the same *)
(* node" and "a new node" are about ids.  The functions above build values *)
(* in which the nodes they create are written in place; Alloc gives each   *)
(* of them its object.                                                     *)

\* the values of the attributes kv, in order
Values(kv) == [i \in 1..Len(kv) |-> kv[i][2]]

\* the attributes kv with the values vals
WithValues(kv, vals) == [i \in 1..Len(kv) |-> <<kv[i][1], vals[i]>>]

\* the object of the node x, whose attribute values are kids.ret
AllocNode(kids, x) ==
    [heap |-> Append(kids.heap, [x EXCEPT !.v = WithValues(x.v, kids.ret)]),
     ret |-> ObjRef(Len(kids.heap) + 1)]

AllocList(kids) == [heap |-> kids.heap, ret |-> List(kids.ret)]

RECURSIVE Alloc(_, _)
RECURSIVE AllocAll(_, _, _)
\* the objects of the nodes a call has created within the value x
Alloc(h, x) ==
    IF x.t = "config"
    THEN CHOOSE r \in {AllocNode(kids, x) : kids \in {AllocAll(h, Values(x.v), <<>>)}} : TRUE
    ELSE IF x.t = "list"
    THEN CHOOSE r \in {AllocList(kids) : kids \in {AllocAll(h, x.v, <<>>)}} : TRUE
    ELSE [heap |-> h, ret |-> x]

\* Alloc of each of xs in turn: done holds the values of the first ones
AllocAll(h, xs, done) ==
    IF Len(done) = Len(xs) THEN [heap |-> h, ret |-> done]
    ELSE CHOOSE r \in {AllocAll(one.heap, xs, Append(done, one.ret)) :
                          one \in {Alloc(h, xs[Len(done) + 1])}} : TRUE

RECURSIVE Deref(_, _)
\* the value x as a function that follows references sees it
Deref(h, x) ==
    IF x.t = "ref" THEN Deref(h, h[x.v])
    ELSE IF x.t = "config"
    THEN [x EXCEPT !.v = [i \in 1..Len(x.v) |-> <<x.v[i][1], Deref(h, x.v[i][2])>>]]
    ELSE IF x.t = "list" THEN List([i \in 1..Len(x.v) |-> Deref(h, x.v[i])])
    ELSE x

\* get_extension_config that hands out a copy of what it finds
Config_get_extension_config_Copy(h, self, ext_name) ==
    CHOOSE r \in {Alloc(h, config) : config \in {get_extension_config(Deref(h, h[self]), ext_name)}} : TRUE

\* root.get_extension_config(ext_name) on the object self: the attribute's
\* node when there is one, what vars(self).get gives when that is truthy,
\* and a new Config() otherwise
Config_get_extension_config(h, self, ext_name) ==
    IF HasKey(h[self].v, ext_name) /\ Lookup(h[self].v, ext_name).t = "ref"
    THEN [heap |-> h, ret |-> Lookup(h[self].v, ext_name)]
    ELSE CHOOSE r \in {Alloc(h, config) : config \in {get_extension_config(h[self], ext_name)}} : TRUE

\* the target object with the attributes of filled, the nodes created for
\* them being the objects of kids
FilledWith(kids, target, filled) ==
    [heap |-> [kids.heap EXCEPT ![target] = [filled EXCEPT !.v = WithValues(filled.v, kids.ret)]],
     ret |-> ObjRef(target)]

\* "return config_to_set" of a call that was given a target
Filled(h, target, filled) ==
    IF IsRaise(filled) THEN [heap |-> h, ret |-> filled]
    ELSE CHOOSE r \in {FilledWith(kids, target, filled) :
                          kids \in {AllocAll(h, Values(filled.v), <<>>)}} : TRUE

\* the absent target of instantiate_configs_in_dict(config_dict)
NoTarget == 0

\* instantiate_configs_in_dict that fills a copy of the target
instantiate_On_Copy(reg, h, config_dict, target) ==
    CHOOSE r \in {Alloc(h, filled) :
                     filled \in {instantiate_configs_in_dict(reg, config_dict,
                                     IF target = NoTarget THEN Null ELSE h[target])}} : TRUE

\* instantiate_configs_in_dict(config_dict, config_to_set) on the object target
instantiate_On(reg, h, config_dict, target) ==
    CHOOSE r \in {IF target = NoTarget THEN Alloc(h, filled) ELSE Filled(h, target, filled) :
                     filled \in {instantiate_configs_in_dict(reg, config_dict,
                                     IF target = NoTarget THEN Null ELSE h[target])}} : TRUE

\* render_config_args that returns a copy of the node with the same children
render_On_Shallow(reg, h, self) == Returned(h, h[self])

\* render_config_args(config_obj) on the object self; an attribute named
\* items shadows the method the overlay loop calls (TypeError)
render_On(reg, h, self) ==
    CHOOSE r \in {Alloc(h, rendered) :
                     rendered \in {IF HasKey(h[self].v, kItems) THEN Raise("TypeError")
                                   ELSE render_config_args(reg, Deref(h, h[self]))}} : TRUE

TreeDocs ==
    NodeDocs \cup {Dict(<< <<kValueProperty, Dict(<< <<kName, StrV>> >>)>>,
                          <<kTables, List(<< Dict(<< <<kName, Str(sRefName)>> >>) >>)>> >>)}

TreeClasses == {"Config", "SearchConfig"}

TreeNames == {kTable, kName, kSearch, kSearches, kNam}

InitTree ==
    /\ config_registry = BaseRegistry
    /\ pc = "tree"
    /\ cli_data = Null
    /\ cli_config = Null
    /\ config_obj = Null
    /\ rendered_config = Null
    /\ heap = <<>>
    /\ call = NoCall
    /\ result = Null
    /\ steps = 0
    /\ hooks = <<>>
    /\ data_cache = <<>>
    /\ loads = <<>>

\* create_cli_config_from_cli_from_data: cli_config is the reference to the root
CreateRoot(doc) ==
    /\ heap = <<>>
    /\ \E built \in {Alloc(heap, create_cli_config_from_cli_from_data(config_registry, <<doc>>))} :
           /\ ~IsRaise(built.ret)
           /\ heap' = built.heap
           /\ cli_config' = built.ret
           /\ result' = built.ret
    /\ cli_data' = _compile_configs(<<doc>>)
    /\ call' = [op |-> "create", doc |-> doc]
    /\ UNCHANGED <<config_registry, pc, config_obj, rendered_config, steps, runVars>>

\* cls()
NewNode(cls) ==
    /\ heap = <<>>
    /\ heap' = <<New(cls)>>
    /\ call' = [op |-> "new", cls |-> cls]
    /\ result' = ObjRef(1)
    /\ UNCHANGED <<steps, loadVars, runVars>>

\* instantiate_configs_in_dict(doc, target), or instantiate_configs_in_dict(doc)
InstantiateOn(target, doc) ==
    /\ steps < MaxSteps
    /\ \E done \in {instantiate_On(config_registry, heap, doc, target)} :
           heap' = done.heap /\ result' = done.ret
    /\ call' = [op |-> "instantiate", target |-> target, doc |-> doc, heap |-> heap]
    /\ steps' = steps + 1
    /\ UNCHANGED <<loadVars, runVars>>

\* cli_config.get_extension_config(ext_name)
GetExtensionConfig(ext_name) ==
    /\ steps < MaxSteps
    /\ cli_config # Null
    /\ \E done \in {Config_get_extension_config(heap, cli_config.v, ext_name)} :
           heap' = done.heap /\ result' = done.ret
    /\ call' = [op |-> "get_extension_config", name |-> ext_name, heap |-> heap]
    /\ steps' = steps + 1
    /\ UNCHANGED <<loadVars, runVars>>

\* render_config_args(node)
RenderTree(self) ==
    /\ steps < MaxSteps
    /\ \E done \in {render_On(config_registry, heap, self)} :
           heap' = done.heap /\ result' = done.ret
    /\ call' = [op |-> "render", self |-> self, heap |-> heap]
    /\ steps' = steps + 1
    /\ UNCHANGED <<loadVars, runVars>>

\* node.set_var(name, value)
SetOn(self, attr_name, attr_value) ==
    /\ steps < MaxSteps
    /\ \E done \in {Config_set_var(heap, self, attr_name, attr_value)} :
           heap' = done.heap /\ result' = done.ret
    /\ call' = [op |-> "set_var", self |-> self, name |-> attr_name, heap |-> heap]
    /\ steps' = steps + 1
    /\ UNCHANGED <<loadVars, runVars>>

NextTree ==
    \/ \E doc \in TreeDocs : CreateRoot(doc)
    \/ \E cls \in TreeClasses : NewNode(cls)
    \/ \E target \in DOMAIN heap \cup {NoTarget}, doc \in TreeDocs : InstantiateOn(target, doc)
    \/ \E ext_name \in TreeNames : GetExtensionConfig(ext_name)
    \/ \E self \in DOMAIN heap : RenderTree(self)
    \/ \E self \in DOMAIN heap, attr_name \in {kName, kTable}, attr_value \in SetValues :
          SetOn(self, attr_name, attr_value)

SpecTree == InitTree /\ [][NextTree]_vars

---------------------------------------------------------------------------
(* Claims about the identity of nodes, under SpecTree.                     *)

\* the ids of the objects in the value x
RefsIn(x) ==
    IF x.t = "ref" THEN {x.v}
    ELSE IF x.t = "list" THEN {x.v[i].v : i \in {j \in 1..Len(x.v) : x.v[j].t = "ref"}}
    ELSE {}

\* the ids of the objects reachable in h from the objects ids
Reach(h, ids) ==
    LET Step(S) == S \cup UNION {UNION {RefsIn(h[id].v[i][2]) : i \in 1..Len(h[id].v)} : id \in S}
        R[n \in 0..Len(h)] == IF n = 0 THEN ids ELSE Step(R[n - 1])
    IN  R[Len(h)]

\* the objects that existed before the call are as they were
OldObjectsKept(except) ==
    \A id \in DOMAIN call.heap \ except : heap[id] = call.heap[id]

\* C24: for a top-level key of the document the root was built from,
\* get_extension_config(name) returns the very node (or list of nodes) that
\* the attribute root.name holds and creates nothing; for a name that is not
\* an attribute of the root it returns a new empty Config; it never raises
C24_SameNode ==
    call.op = "get_extension_config" =>
        LET root == call.heap[cli_config.v]
        IN  /\ ~IsRaise(result)
            /\ OldObjectsKept({})
            /\ (HasKey(cli_data.v, call.name) /\ Lookup(root.v, call.name).t \in {"ref", "list"})
                => result = Lookup(root.v, call.name) /\ heap = call.heap
            /\ ~HasKey(root.v, call.name)
                => /\ result = ObjRef(Len(call.heap) + 1)
                   /\ heap = Append(call.heap, New("Config"))
                   /\ heap[result.v].v = <<>>

\* after a call for a name the root does not have, a call for a key of the
\* document returns the root's own node
C24_Witness ==
    /\ call.op = "get_extension_config"
    /\ steps = 2
    /\ call.name = kSearch /\ HasKey(cli_data.v, kSearch)
    /\ result.t = "ref" /\ result = Lookup(heap[cli_config.v].v, kSearch)
    /\ heap[result.v].cls = "SearchConfig"
    /\ heap[Len(heap)] = New("Config")
    /\ Len(heap) \notin Reach(heap, {cli_config.v})

\* the top-level keys of a document
DocKeys(doc) == {doc.v[i][1] : i \in 1..Len(doc.v)}

\* the value holds nodes, all of them created by the call
HoldsNewNodes(x) == RefsIn(x) # {} /\ RefsIn(x) \cap DOMAIN call.heap = {}

\* an instantiate that returned
IsInstantiate == call.op = "instantiate" /\ ~IsRaise(result)

\* with no target, the call returns a Config it has created
NewGenericNode ==
    (IsInstantiate /\ call.target = NoTarget) =>
        /\ result.t = "ref" /\ result.v \notin DOMAIN call.heap
        /\ heap[result.v].cls = "Config"
        /\ OldObjectsKept({})

PropertyKeys(target, doc) ==
    IF target.cls = "SearchConfig" THEN DocKeys(doc) \cap {kValueProperty} ELSE {}

=========================================================================
